---------------------------- MODULE Spec2Model ----------------------------
(***************************************************************************)
(* A model of pimmp's library engine: the per-library admission gates of   *)
(* load() and scan(), the recursive traversal scanDive(), the file-name    *)
(* classification tables, the busy counter, and the orchestrator that      *)
(* runs load-then-scan for every library.                                  *)
(*                                                                         *)
(* A file name is a sequence of one-character strings, a path a sequence   *)
(* of names (the root first).  The document store (tiedot) and the         *)
(* repository's database.go are not part of the sources at hand; their     *)
(* behaviour is modelled from the interface the engine relies on.          *)
(***************************************************************************)
EXTENDS Integers, Sequences, FiniteSets, TLC

\* ------------------------------------------------------------------ bounds
NumLibs == 2        \* libraries opened by the process
NumThreads == 2     \* goroutines that call load()/scan() on their own
MaxCalls == 3       \* calls the free-running goroutines make in all
MaxClock == 1       \* wall-clock readings that differ from the first
MaxDepthLimit == 3  \* largest maxDepth a library is opened with
MaxFaults == 1      \* file-system / store calls that fail in one run
MaxCycle == 1       \* redraws the display counts in one busy period
MaxArgs == 3        \* library paths given on the command line

\* ------------------------------------------------------- program constants
depthUnlimited == 0
maxLibraryScanners == 1

mkUnknown == -1
mkAudio == 0
mkVideo == 1
mkCOUNT == 2

mskUnknown == -1
mskSubtitles == 0

\* entity classes (database.go, referenced by library.go's indexRef)
ecUnknown == -1
ecMedia == 0
ecSupport == 1
ecCOUNT == 2

\* ------------------------------------------------------------ small helpers
Max(S) == CHOOSE x \in S : \A y \in S : y <= x
Min(S) == CHOOSE x \in S : \A y \in S : x <= y
Last(s) == s[Len(s)]
Range(s) == {s[i] : i \in 1..Len(s)}

RECURSIVE SumSeq(_)
SumSeq(s) == IF s = <<>> THEN 0 ELSE Head(s) + SumSeq(Tail(s))

\* ---------------------------------------------------------- strings, paths
UpperChars == <<"A","B","C","D","E","F","G","H","I","J","K","L","M",
                "N","O","P","Q","R","S","T","U","V","W","X","Y","Z">>
LowerChars == <<"a","b","c","d","e","f","g","h","i","j","k","l","m",
                "n","o","p","q","r","s","t","u","v","w","x","y","z">>

\* Op applied to the value of v, which is worked out once
With(v, Op(_)) == CHOOSE r \in {Op(x) : x \in {v}} : TRUE

\* variant: the search key is used as it was given
ToLowerNot(s) == s

\* the upper-case form of one character, and of a string
UpperChar(c) ==
    IF \E i \in 1..26 : LowerChars[i] = c
    THEN UpperChars[CHOOSE i \in 1..26 : LowerChars[i] = c]
    ELSE c
ToUpper(s) == [i \in 1..Len(s) |-> UpperChar(s[i])]

\* strings.ToLower on one character
LowerChar(c) ==
    IF \E i \in 1..26 : UpperChars[i] = c
    THEN LowerChars[CHOOSE i \in 1..26 : UpperChars[i] = c]
    ELSE c

\* strings.ToLower
ToLower(s) == With(s, LAMBDA v : [i \in 1..Len(v) |-> LowerChar(v[i])])

\* path.Ext on the last element of a path: the suffix from the final dot,
\* empty when the name holds no dot
ExtOfName(name) ==
    With(name, LAMBDA n :
        With({i \in 1..Len(n) : n[i] = "."}, LAMBDA dots :
            IF dots = {} THEN <<>> ELSE SubSeq(n, Max(dots), Len(n))))

Ext(absPath) == ExtOfName(Last(absPath))

\* path.Join(absPath, name)
Join(absPath, name) == Append(absPath, name)

\* ------------------------------------------------------ classification
audioExt ==
       ("3D Solar UK Ltd" :> <<<<".", "i", "v", "s">>>>)
    @@ ("ACT Lossy ADPCM" :> <<<<".", "a", "c", "t">>>>)
    @@ ("Adaptive Multi-Rate" :> <<<<".", "a", "m", "r">>>>)
    @@ ("Adaptive Multi-Rate Wideband" :> <<<<".", "a", "w", "b">>>>)
    @@ ("Advanced Audio Coding" :> <<<<".", "a", "a", "c">>>>)
    @@ ("Apple AIFF" :> <<<<".", "a", "i", "f", "f">>>>)
    @@ ("Audible Audiobook" :> <<<<".", "a", "a">>, <<".", "a", "a", "x">>>>)
    @@ ("Dialogic ADPCM" :> <<<<".", "v", "o", "x">>>>)
    @@ ("Digital Speech Standard" :> <<<<".", "d", "s", "s">>>>)
    @@ ("Electronic Arts IFF-8SVX" :> <<<<".", "8", "s", "v", "x">>>>)
    @@ ("Free Lossless Audio Codec" :> <<<<".", "f", "l", "a", "c">>>>)
    @@ ("GSM Telephony" :> <<<<".", "g", "s", "m">>>>)
    @@ ("iKlax Media" :> <<<<".", "i", "k", "l", "a", "x">>>>)
    @@ ("Linear PCM" :> <<<<".", "s", "l", "n">>>>)
    @@ ("Microsoft WAV" :> <<<<".", "w", "a", "v">>>>)
    @@ ("Microsoft Windows Media Audio" :> <<<<".", "w", "m", "a">>>>)
    @@ ("Monkey's Audio" :> <<<<".", "a", "p", "e">>>>)
    @@ ("MPEG Layer III" :> <<<<".", "m", "p", "3">>>>)
    @@ ("MPEG-4 Part 14" :> <<<<".", "m", "4", "a">>, <<".", "m", "4", "b">>>>)
    @@ ("Musepack/MPC/MPEG" :> <<<<".", "m", "p", "c">>>>)
    @@ ("NCH Dictation" :> <<<<".", "d", "c", "t">>>>)
    @@ ("Nintendo (NES) Sound Format" :> <<<<".", "n", "s", "f">>>>)
    @@ ("Ogg Audio" :> <<<<".", "o", "g", "a">>, <<".", "m", "o", "g", "g">>>>)
    @@ ("Opus" :> <<<<".", "o", "p", "u", "s">>>>)
    @@ ("RAW Audio Format" :> <<<<".", "r", "a", "w">>>>)
    @@ ("RealAudio" :> <<<<".", "r", "a">>>>)
    @@ ("Samsung Yamaha Ringtone" :> <<<<".", "m", "m", "f">>>>)
    @@ ("Sony Compressed Voice" :> <<<<".", "d", "v", "f">>, <<".", "m", "s", "v">>>>)
    @@ ("Sun/Unix/Java Audio" :> <<<<".", "a", "u">>>>)
    @@ ("True Audio Lossless" :> <<<<".", "t", "t", "a">>>>)
    @@ ("WavPack" :> <<<<".", "w", "v">>>>)

videoExt ==
       ("3GPP" :> <<<<".", "3", "g", "p">>>>)
    @@ ("3GPP2" :> <<<<".", "3", "g", "2">>>>)
    @@ ("Advanced Systems Format" :> <<<<".", "a", "s", "f">>>>)
    @@ ("AMV video format" :> <<<<".", "a", "m", "v">>>>)
    @@ ("Audio Video Interleave" :> <<<<".", "a", "v", "i">>>>)
    @@ ("Dirac" :> <<<<".", "d", "r", "c">>>>)
    @@ ("Flash Video" :> <<<<".", "f", "l", "v">>, <<".", "f", "4", "v">>, <<".", "f", "4", "p">>, <<".", "f", "4", "a">>, <<".", "f", "4", "b">>>>)
    @@ ("Graphics Interchange Format Video" :> <<<<".", "g", "i", "f", "v">>>>)
    @@ ("Material Exchange Format" :> <<<<".", "m", "x", "f">>>>)
    @@ ("Matroska" :> <<<<".", "m", "k", "v">>>>)
    @@ ("MPEG Transport Stream" :> <<<<".", "m", "t", "s">>, <<".", "m", "2", "t", "s">>>>)
    @@ ("MPEG-1" :> <<<<".", "m", "p", "2">>, <<".", "m", "p", "e">>, <<".", "m", "p", "v">>>>)
    @@ ("MPEG-1/MPEG-2" :> <<<<".", "m", "p", "g">>, <<".", "m", "p", "e", "g">>>>)
    @@ ("MPEG-2" :> <<<<".", "m", "2", "v">>>>)
    @@ ("MPEG-4 Part 14" :> <<<<".", "m", "p", "4">>, <<".", "m", "4", "p">>, <<".", "m", "4", "v">>>>)
    @@ ("Multiple-image Network Graphics" :> <<<<".", "m", "n", "g">>>>)
    @@ ("Nullsoft Streaming Video" :> <<<<".", "n", "s", "v">>>>)
    @@ ("Ogg Video" :> <<<<".", "o", "g", "v">>, <<".", "o", "g", "g">>>>)
    @@ ("QuickTime File Format" :> <<<<".", "m", "o", "v">>, <<".", "q", "t">>>>)
    @@ ("Raw video format" :> <<<<".", "y", "u", "v">>>>)
    @@ ("RealMedia" :> <<<<".", "r", "m">>>>)
    @@ ("RealMedia Variable Bitrate" :> <<<<".", "r", "m", "v", "b">>>>)
    @@ ("RoQ FMV" :> <<<<".", "r", "o", "q">>>>)
    @@ ("Standardized Video Interview" :> <<<<".", "s", "v", "i">>>>)
    @@ ("Video Object" :> <<<<".", "v", "o", "b">>>>)
    @@ ("WebM" :> <<<<".", "w", "e", "b", "m">>>>)
    @@ ("Windows Media Video" :> <<<<".", "w", "m", "v">>>>)

subsExt ==
       ("AQTitle" :> <<<<".", "a", "q", "t">>>>)
    @@ ("CVD" :> <<<<".", "c", "v", "d">>>>)
    @@ ("DKS" :> <<<<".", "d", "k", "s">>>>)
    @@ ("Gloss Subtitle" :> <<<<".", "g", "s", "u", "b">>>>)
    @@ ("JACOSub" :> <<<<".", "j", "s", "s">>>>)
    @@ ("MPL2" :> <<<<".", "m", "p", "l">>>>)
    @@ ("Phoenix Subtitle" :> <<<<".", "p", "j", "s">>>>)
    @@ ("PowerDivX" :> <<<<".", "p", "s", "b">>>>)
    @@ ("RealText / SMIL" :> <<<<".", "r", "t">>>>)
    @@ ("SAMI" :> <<<<".", "s", "m", "i">>>>)
    @@ ("SubRip" :> <<<<".", "s", "r", "t">>>>)
    @@ ("SubStation Alpha" :> <<<<".", "s", "s", "a">>>>)
    @@ ("Advanced SubStation Alpha" :> <<<<".", "a", "s", "s">>>>)
    @@ ("Structured Subtitle Format" :> <<<<".", "s", "s", "f">>>>)
    @@ ("Spruce subtitle format" :> <<<<".", "s", "t", "l">>>>)
    @@ ("MicroDVD" :> <<<<".", "s", "u", "b">>>>)
    @@ ("MPSub" :> <<<<".", "s", "u", "b">>>>)
    @@ ("SubViewer" :> <<<<".", "s", "u", "b">>>>)
    @@ ("VobSub" :> <<<<".", "s", "u", "b">>, <<".", "i", "d", "x">>>>)
    @@ ("SVCD" :> <<<<".", "s", "v", "c", "d">>>>)
    @@ ("MPEG-4 Timed Text" :> <<<<".", "t", "t", "x", "t">>>>)
    @@ ("Universal Subtitle Format" :> <<<<".", "u", "s", "f">>>>)

\* variant: the lookup consults all three tables whatever table it is given
kindOfFileExtAnyTable(table, ext) ==
    {n \in DOMAIN audioExt \cup DOMAIN videoExt \cup DOMAIN subsExt :
        \E tb \in {audioExt, videoExt, subsExt} :
            n \in DOMAIN tb /\ \E i \in 1..Len(tb[n]) : tb[n][i] = ext}

\* kindOfFileExt(): the type names under which the table lists ext.  The Go
\* loop ranges over a map, whose order is unspecified, and returns the first
\* name that matches: any element of this set; found iff it is not empty.
kindOfFileExt(table, ext) ==
    With(ext, LAMBDA x :
        {n \in DOMAIN table : \E i \in 1..Len(table[n]) : table[n][i] = x})

\* mediaKindOfFileExt(): audio table first, then video
mediaKindOfFileExt(ext) ==
    With(ToLower(ext), LAMBDA extLower :
        IF kindOfFileExt(audioExt, extLower) # {} THEN mkAudio
        ELSE IF kindOfFileExt(videoExt, extLower) # {} THEN mkVideo
        ELSE mkUnknown)

\* the type names mediaKindOfFileExt() may return with the kind
mediaNameOfFileExt(ext) ==
    With(ToLower(ext), LAMBDA extLower :
        IF kindOfFileExt(audioExt, extLower) # {}
        THEN kindOfFileExt(audioExt, extLower)
        ELSE IF kindOfFileExt(videoExt, extLower) # {}
        THEN kindOfFileExt(videoExt, extLower)
        ELSE {""})

\* mediaSupportKindOfFileExt(): the subtitle table
mediaSupportKindOfFileExt(ext) ==
    With(ToLower(ext), LAMBDA extLower :
        IF kindOfFileExt(subsExt, extLower) # {} THEN mskSubtitles
        ELSE mskUnknown)

mediaSupportNameOfFileExt(ext) ==
    With(ToLower(ext), LAMBDA extLower :
        IF kindOfFileExt(subsExt, extLower) # {}
        THEN kindOfFileExt(subsExt, extLower)
        ELSE {""})

\* ------------------------------------------------------------ file system
Libs == 1..NumLibs
Threads == 1..NumThreads

Digits == <<"1", "2", "3", "4", "5", "6", "7", "8", "9">>

\* the base name of library l's root directory
RootName(l) == <<"l", Digits[l]>>

\* Library.absPath
AbsRoot(l) == <<RootName(l)>>

nA == <<"a", ".", "M", "P", "3">>
nB == <<"b", ".", "m", "k", "v">>
nS == <<"b", ".", "S", "R", "T">>
nC == <<"c", ".", "s", "u", "b">>
nD == <<"d", ".", "t", "x", "t">>
nE == <<"e">>

\* The entries a library tree may hold, by root-relative path, and the order
\* in which a directory lists them (Readdirnames):
\*   a.MP3   e/   e/b.mkv   e/b.SRT   e/e/   e/e/c.sub   d.txt
SkelChildren(rel) ==
    CASE rel = <<>>       -> <<nA, nE, nD>>
      [] rel = <<nE>>     -> <<nB, nS, nE>>
      [] rel = <<nE, nE>> -> <<nC>>
      [] OTHER            -> <<>>

SkelRel == {<<>>, <<nA>>, <<nE>>, <<nD>>, <<nE, nB>>, <<nE, nS>>, <<nE, nE>>,
            <<nE, nE, nC>>}

\* what os.Lstat reports for an entry ("none": no such entry)
SpecialTypes == {"device", "pipe", "socket", "chardev"}
EntryTypes == {"file", "dir", "symlink"} \cup SpecialTypes

\* the types each entry takes in the trees that are explored
TypeChoices(rel) ==
    CASE rel = <<>>           -> {"dir", "symlink"}
      [] rel = <<nA>>         -> EntryTypes
      [] rel = <<nE>>         -> {"dir", "symlink"}
      [] rel = <<nD>>         -> {"file"}
      [] rel = <<nE, nB>>     -> {"file", "pipe"}
      [] rel = <<nE, nS>>     -> {"file"}
      [] rel = <<nE, nE>>     -> {"dir", "file"}
      [] rel = <<nE, nE, nC>> -> {"file", "symlink"}

\* an entry exists only below a directory or below a symbolic link, which
\* then is a link to a directory: the root that newLibrary() accepts through
\* os.Open and Readdir may be such a link (part_000:139-166), and so may any
\* directory entry below it
Existing(tr) ==
    [rel \in SkelRel |->
        IF \A k \in 0..(Len(rel) - 1) :
              tr[SubSeq(rel, 1, k)] \in {"dir", "symlink"}
        THEN tr[rel] ELSE "none"]

Trees ==
    {Existing([rel \in SkelRel |->
        CASE rel = <<>>           -> r
          [] rel = <<nA>>         -> a
          [] rel = <<nE>>         -> e
          [] rel = <<nD>>         -> d
          [] rel = <<nE, nB>>     -> b
          [] rel = <<nE, nS>>     -> s
          [] rel = <<nE, nE>>     -> ee
          [] rel = <<nE, nE, nC>> -> c]) :
        r \in TypeChoices(<<>>), a \in TypeChoices(<<nA>>),
        e \in TypeChoices(<<nE>>), d \in TypeChoices(<<nD>>),
        b \in TypeChoices(<<nE, nB>>), s \in TypeChoices(<<nE, nS>>),
        ee \in TypeChoices(<<nE, nE>>), c \in TypeChoices(<<nE, nE, nC>>)}

\* a small tree: one audio file and one unclassified file under the root
SmallTree ==
    [rel \in SkelRel |->
        CASE rel = <<>>   -> "dir"
          [] rel = <<nA>> -> "file"
          [] rel = <<nD>> -> "file"
          [] OTHER        -> "none"]

\* filepath.Rel(l.absPath, absPath) for a path at or below the root
Rel(l, absPath) == SubSeq(absPath, Len(AbsRoot(l)) + 1, Len(absPath))

\* variant: no type bit is reported for a symbolic link
ModeBitsNoLink(typ) ==
    CASE typ = "dir"     -> {"ModeDir"}
      [] typ = "device"  -> {"ModeDevice"}
      [] typ = "pipe"    -> {"ModeNamedPipe"}
      [] typ = "socket"  -> {"ModeSocket"}
      [] typ = "chardev" -> {"ModeDevice", "ModeCharDevice"}
      [] OTHER           -> {}

\* the mode bits os.Lstat reports, as the set of type bits that are set; a
\* character device carries both ModeDevice and ModeCharDevice
ModeBits(typ) ==
    CASE typ = "dir"     -> {"ModeDir"}
      [] typ = "symlink" -> {"ModeSymlink"}
      [] typ = "device"  -> {"ModeDevice"}
      [] typ = "pipe"    -> {"ModeNamedPipe"}
      [] typ = "socket"  -> {"ModeSocket"}
      [] typ = "chardev" -> {"ModeDevice", "ModeCharDevice"}
      [] OTHER           -> {}

\* ------------------------------------------------------------ collections
\* db.col[class][kind], in the order load() ranges over numRecordsLoad
Collections == <<<<ecMedia, mkAudio>>, <<ecMedia, mkVideo>>,
                 <<ecSupport, mskSubtitles>>>>
ColKeys == Range(Collections)

Handlers == {"handleMedia", "handleSupport", "handleOther"}

ZeroTime == -1

VARIABLES
    fs,             \* fs[l][rel]: the entry type at rel under library l's root
    maxDepth,       \* Library.maxDepth
    isCLIMode,      \* the global isCLIMode
    faults,         \* failing file-system / store calls still to come
    clock,          \* the latest wall-clock reading
    col,            \* col[l][<<class, kind>>]: the stored documents, in order
    numRecordsLoad, \* Database.numRecordsLoad[class][kind]
    numRecordsScan, \* Database.numRecordsScan[class][kind]
    first,          \* Database.isFirstAppearance()
    loadStart,      \* Library.loadStart: the buffered channel's content
    scanStart,      \* Library.scanStart
    loadElapsed,    \* Library.loadElapsed
    scanElapsed,    \* Library.scanElapsed
    lastScan,       \* Library.lastScan
    busyCount,      \* BusyState.busyCount
    busyCycle,      \* BusyState.busyCycle
    observed,       \* the values an observer received on BusyState.changed
    layout,         \* whether the UI layout, the receiver of BusyState.changed, runs
    lastNext,       \* what next() last returned in the current busy period, 0 if nothing
    pc,             \* pc[t]: where goroutine t stands
    loc,            \* loc[t]: the goroutine's locals and its call's record
    ncalls,         \* calls made so far by the free-running goroutines
    cleanScans,     \* cleanScans[l]: scans of l that ended with no failed call
    scanLog,        \* scanLog[l]: whether a scan of l has returned, and the entries
                    \* a call of the latest such scan failed on
    numMedia,       \* numMedia[t]: the local of populateLibrary's goroutine t
    fanin,          \* main and its goroutine waiting on scanComplete, in library order
    libArgs,        \* options.Args(): the library paths given to the program
    roots,          \* roots[abs]: what opening the directory abs comes to
    library,        \* initLibrary's list of valid libraries
    results,        \* what each newLibrary call of initLibrary was given and returned
    entity,         \* the entity toRecord() is called on, and the way its record takes
    restored,       \* what fromRecord() made of the record
    fileExt,        \* the file name extension scanDive classifies a file by
    classified      \* what scanDive's two switches make of the extension

vars == <<fs, maxDepth, isCLIMode, layout, faults, clock, col, numRecordsLoad,
          numRecordsScan, first, loadStart, scanStart, loadElapsed,
          scanElapsed, lastScan, busyCount, busyCycle, observed, lastNext, pc, loc,
          ncalls,
          cleanScans, scanLog, numMedia, fanin, libArgs, roots, library, results,
          entity, restored,
          fileExt, classified>>

\* The source has the UI layout commented out (main.go:403-421), and with
\* it the only receiver of BusyState.changed: layout is FALSE in the program
\* as src/ has it.  The specification describes an observer of the busy
\* state; with layout TRUE that observer runs (outside CLI mode only, where
\* main would start it).
NoLayout == layout = FALSE
AnyLayout == layout \in (IF isCLIMode THEN {FALSE} ELSE BOOLEAN)

\* what no step of load(), scan() or populateLibrary() changes
envVars == <<fs, maxDepth, isCLIMode, layout, libArgs, roots, library, results,
            entity, restored,
            fileExt, classified>>
dbVars == <<col, numRecordsLoad, numRecordsScan, first>>
gateVars == <<loadStart, scanStart>>
timeVars == <<loadElapsed, scanElapsed, lastScan>>
busyVars == <<busyCount, busyCycle, observed, lastNext>>
histVars == <<ncalls, cleanScans, scanLog>>
orchVars == <<numMedia, fanin>>

\* ------------------------------------------------------------ return codes
\* a *ReturnCode: its kind, the path it names, and the limit it names
Nil == [code |-> "nil", path |-> <<>>, max |-> 0]
RC(code, path, max) == [code |-> code, path |-> path, max |-> max]

\* ------------------------------------------------------- goroutine locals
NoCur == [rel |-> <<>>, depth |-> 0, class |-> ecUnknown, kind |-> -1]

\* what a reconciliation pass did: its mode, the subtitles it submitted to
\* the matching step, the count it reports as still orphaned, its result
NoPass == [force |-> FALSE, submitted |-> <<>>, remain |-> 0, ret |-> Nil]

\* no scan of the library has returned
NotScanned == [scanned |-> FALSE, failedAt |-> {}]

\* the locals of a goroutine that is in no call
NoCall ==
    [lib |-> 0, op |-> "none", ph |-> {}, stack |-> <<>>, started |-> FALSE,
     cur |-> NoCur, newCount |-> 0, err |-> Nil, count |-> 0, ci |-> 1,
     handled |-> <<>>, visited |-> <<>>, inserted |-> 0, recand |-> 0,
     failed |-> FALSE, failedAt |-> {}, prior |-> 0, pass |-> NoPass,
     before |-> <<>>, cycleWas |-> -1, start |-> 0, elapsed |-> 0]

\* the locals on entry to load(handler) / scan(handler) on library l
NewCall(op, l, ph) == [NoCall EXCEPT !.lib = l, !.op = op, !.ph = ph]

\* the PathHandler the callers pass: every slot set (populateLibrary)
AllHandlers == Handlers

\* a failing call consumes one of the run's faults
FaultChoices(S) == {"none"} \cup (IF faults > 0 THEN S ELSE {})
Consume(fault) == faults' = IF fault = "none" THEN faults ELSE faults - 1

\* os.Exit() has not been called: the goroutines of the process can run
Alive == fanin.exit # "exited"

\* time.Now(): the wall clock is read; the readings of a run are 0, 1, ...
\* up to MaxClock, where the clock is no longer seen to advance
Now == clock
Tick(n) == IF n < MaxClock THEN n + 1 ELSE n

\* ------------------------------------------------------------- the store
EmptyDB == [k \in ColKeys |-> <<>>]
ZeroCount == [k \in ColKeys |-> 0]

\* Col.Insert: the document is stored under a fresh id, which is returned
NewId(c) == Len(c) + 1
\* variant: the store keeps two documents for one Insert
InsertTwice(c, rec) ==
    Append(Append(c, [id |-> NewId(c), rec |-> rec]),
           [id |-> NewId(c) + 1, rec |-> rec])
Insert(c, rec) == Append(c, [id |-> NewId(c), rec |-> rec])

\* db.EvalQuery {"eq": path, "in": ["absPath"]}: the ids of the documents
\* whose indexed path equals path
EvalQuery(c, path) == {c[i].id : i \in {j \in 1..Len(c) : c[j].rec.absPath = path}}

\* variant: the query finds nothing
seenFileNever(l, class, kind, path) == FALSE

\* scanDive's seenFile(): whether the collection of (class, kind) already
\* holds a document with this absolute path
seenFile(l, class, kind, path) ==
    Cardinality(EvalQuery(col[l][<<class, kind>>], path)) > 0

\* Database.totalRecordsString(method, -1, -1): the total over all collections
totalRecords(counts) ==
    SumSeq([i \in 1..Len(Collections) |-> counts[Collections[i]]])

\* newAudioMedia / newVideoMedia / newSubtitles followed by toRecord(): the
\* stored fields the engine reads back
NewRecord(l, absPath, relPath, kind, ext, extName) ==
    [absPath |-> absPath, relPath |-> relPath, kind |-> kind, ext |-> ext,
     extName |-> extName, known |-> {}]

\* ---------------------------------------------------------------- scanDive
\* os.Readdirnames(0): the names the directory holds, in listing order
Readdirnames(l, rel) ==
    SelectSeq(SkelChildren(rel), LAMBDA n : fs[l][Append(rel, n)] # "none")

\* A frame of the recursion is a directory whose entries are being visited:
\* its path, its depth, and the names still to visit.  A frame with no name
\* left returns nil to its caller.
RECURSIVE Unwind(_)
Unwind(stack) ==
    IF stack # <<>> /\ Last(stack).todo = <<>>
    THEN Unwind(SubSeq(stack, 1, Len(stack) - 1))
    ELSE stack

\* variant: the loop over dirName ends after the entry in hand
AdvancePastAll(stack) ==
    IF stack = <<>> THEN stack
    ELSE [stack EXCEPT ![Len(stack)].todo = <<>>]

\* variant: the names of a directory are visited after the names still to
\* visit in the directories above it
DescendLater(stack, frame) == <<frame>> \o stack

\* the recursive call on a directory: its names are visited before the
\* caller's loop goes on
Descend(stack, frame) == Append(stack, frame)

\* the loop over dirName moves on to the next name
Advance(stack) ==
    IF stack = <<>> THEN stack
    ELSE [stack EXCEPT ![Len(stack)].todo = Tail(@)]

\* the entry the next scanDive call is made on: the root at depth 1, then
\* path.Join(absPath, name) at depth+1
CurEntry(t) ==
    IF ~loc[t].started
    THEN [rel |-> <<>>, depth |-> 1]
    ELSE LET f == Last(loc[t].stack)
         IN  [rel |-> Append(f.dir, Head(f.todo)), depth |-> f.depth + 1]

Outcome(act, rc, class, kind) ==
    [act |-> act, rc |-> rc, class |-> class, kind |-> kind]

\* the depth test on a directory
DepthExceeded(l, depth) ==
    depthUnlimited # maxDepth[l] /\ depth > maxDepth[l]

\* scanDive up to the point where it lists a directory, gives up on the
\* entry, or has classified a regular file
scanDiveEntry(l, rel, depth, fault) ==
    LET mode == ModeBits(fs[l][rel])
        ext == Ext(AbsRoot(l) \o rel)
    IN  IF fault = "lstat"
        THEN Outcome("fail", "rcInvalidStat", ecUnknown, -1)
        ELSE IF "ModeDir" \in mode
        THEN IF DepthExceeded(l, depth)
             THEN Outcome("fail", "rcDirDepth", ecUnknown, -1)
             ELSE IF fault \in {"open", "readdir"}
             THEN Outcome("fail", "rcDirOpen", ecUnknown, -1)
             ELSE Outcome("list", "nil", ecUnknown, -1)
        ELSE IF "ModeSymlink" \in mode
        THEN Outcome("fail", "rcInvalidFile", ecUnknown, -1)
        ELSE IF mode \cap {"ModeDevice", "ModeNamedPipe", "ModeSocket",
                           "ModeCharDevice"} # {}
        THEN Outcome("fail", "rcInvalidFile", ecUnknown, -1)
        ELSE IF mediaKindOfFileExt(ext) = mkAudio
        THEN Outcome("file", "nil", ecMedia, mkAudio)
        ELSE IF mediaKindOfFileExt(ext) = mkVideo
        THEN Outcome("file", "nil", ecMedia, mkVideo)
        ELSE IF mediaSupportKindOfFileExt(ext) = mskSubtitles
        THEN Outcome("file", "nil", ecSupport, mskSubtitles)
        ELSE Outcome("other", "nil", ecUnknown, -1)

\* the calls of scanDive on this entry that may fail
ApplicableFaults(l, rel, depth) ==
    LET act == scanDiveEntry(l, rel, depth, "none").act
    IN  {"lstat"}
        \cup (IF act = "list" THEN {"open", "readdir"} ELSE {})
        \cup (IF act = "file" THEN {"query"} ELSE {})

Visit(rel, depth, rc) == [rel |-> rel, depth |-> depth, rc |-> rc]
Handled(h, path, id) == [h |-> h, path |-> path, id |-> id]

\* variant: no handler is called
NotifyNone(t, h, path, id) == loc[t].handled

\* ph.handleX(...) when the handler and the slot are set
Notify(t, h, path, id) ==
    IF h \in loc[t].ph THEN Append(loc[t].handled, Handled(h, path, id))
    ELSE loc[t].handled

\* variant: the pass follows the traversal whatever the root step returned
AfterEntryAlwaysPass(stack, err) ==
    IF stack # <<>> THEN "dive" ELSE "recand"

\* where scan() goes when an entry is done: on to the next entry, or, the
\* root call having returned err, to the reconciliation pass (nil == err)
\* or past it
AfterEntry(stack, err) ==
    IF stack # <<>> THEN "dive"
    ELSE IF err.code = "nil" THEN "recand" ELSE "finish"

\* variant: the error of the root call is not kept
RootErrDropped(t, depth, rc) == loc[t].err

\* the error scan() keeps: that of the root call
RootErr(t, depth, rc) == IF depth = 1 THEN rc ELSE loc[t].err

\* One scanDive call, up to its return or to the insert of a new file.
ScanDive(t) ==
    /\ Alive
    /\ pc[t] = "dive"
    /\ \E l \in {loc[t].lib}, e \in {CurEntry(t)} :
       \E fault \in FaultChoices(ApplicableFaults(l, e.rel, e.depth)) :
       \E o \in {scanDiveEntry(l, e.rel, e.depth, fault)} :
       \E seen \in {o.act = "file" /\ fault # "query"
                        /\ seenFile(l, o.class, o.kind, AbsRoot(l) \o e.rel)} :
       \E pending \in {o.act = "file" /\ fault # "query" /\ ~seen} :
       \E stack3 \in {IF o.act = "list"
                       THEN Unwind(Descend(Advance(loc[t].stack),
                                [dir |-> e.rel, depth |-> e.depth,
                                 todo |-> Readdirnames(l, e.rel)]))
                       ELSE IF pending THEN Advance(loc[t].stack)
                       ELSE Unwind(Advance(loc[t].stack))} :
           LET abs == AbsRoot(l) \o e.rel
               code == IF o.act = "file" /\ fault = "query"
                       THEN "rcInvalidFile" ELSE o.rc
               rc == IF code = "nil" THEN Nil
                     ELSE RC(code, e.rel, maxDepth[l])
               err2 == RootErr(t, e.depth, rc)
           IN  /\ Consume(fault)
               /\ loc' = [loc EXCEPT
                     ![t].started = TRUE,
                     ![t].failed = @ \/ fault # "none",
                     ![t].failedAt = IF fault # "none" THEN @ \cup {e.rel}
                                     ELSE @,
                     ![t].stack = stack3,
                     ![t].cur = IF pending
                                THEN [rel |-> e.rel, depth |-> e.depth,
                                      class |-> o.class, kind |-> o.kind]
                                ELSE NoCur,
                     ![t].err = IF pending THEN @ ELSE err2,
                     ![t].handled = IF o.act = "other"
                                    THEN Notify(t, "handleOther", abs, 0)
                                    ELSE @,
                     ![t].visited = IF pending THEN @
                                    ELSE Append(@, Visit(e.rel, e.depth, code))]
               /\ pc' = [pc EXCEPT ![t] = IF pending THEN "insert"
                                          ELSE AfterEntry(stack3, err2)]
    /\ UNCHANGED <<envVars, orchVars, clock, dbVars, gateVars, timeVars, busyVars, histVars>>

\* variant: the counter and the handler follow a failed call as well
InsertOkAlways(fault) == TRUE

\* nil == recErr and nil == insErr: the record was built and stored
InsertOk(fault) == fault = "none"

\* The rest of scanDive for a file that seenFile() did not find: the entity
\* is built and stored, the scan counter incremented, the handler notified.
ScanInsert(t) ==
    /\ Alive
    /\ pc[t] = "insert"
    /\ \E l \in {loc[t].lib}, c \in {loc[t].cur} :
       \E abs \in {AbsRoot(l) \o c.rel} :
       \E ext \in {Ext(abs)} :
       \E fault \in FaultChoices({"torecord", "insert"}) :
       \E extName \in (IF c.class = ecMedia THEN mediaNameOfFileExt(ext)
                        ELSE mediaSupportNameOfFileExt(ext)) :
       \E stack2 \in {Unwind(loc[t].stack)} :
           LET key == <<c.class, c.kind>>
               h == IF c.class = ecMedia THEN "handleMedia" ELSE "handleSupport"
               code == CASE fault = "torecord" -> "recErr"
                         [] fault = "insert" -> "rcDatabaseError"
                         [] OTHER -> "nil"
               rc == IF code = "nil" THEN Nil ELSE RC(code, c.rel, maxDepth[l])
               rec == NewRecord(l, abs, Rel(l, abs), c.kind, ext, extName)
               id == NewId(col[l][key])
               err2 == RootErr(t, c.depth, rc)
           IN  /\ Consume(fault)
               /\ col' = IF InsertOk(fault)
                         THEN [col EXCEPT ![l][key] = Insert(@, rec)]
                         ELSE col
               /\ numRecordsScan' =
                     IF InsertOk(fault)
                     THEN [numRecordsScan EXCEPT ![l][key] = @ + 1]
                     ELSE numRecordsScan
               /\ loc' = [loc EXCEPT
                     ![t].stack = stack2,
                     ![t].cur = NoCur,
                     ![t].failed = @ \/ fault # "none",
                     ![t].failedAt = IF fault # "none" THEN @ \cup {c.rel}
                                     ELSE @,
                     ![t].err = err2,
                     ![t].inserted = IF InsertOk(fault) THEN @ + 1 ELSE @,
                     ![t].handled = IF InsertOk(fault)
                                    THEN Notify(t, h, abs, id) ELSE @,
                     ![t].visited = Append(@, Visit(c.rel, c.depth, code))]
               /\ pc' = [pc EXCEPT ![t] = AfterEntry(stack2, err2)]
    /\ UNCHANGED <<envVars, orchVars, clock, numRecordsLoad, first, gateVars, timeVars,
                   busyVars, histVars>>
\* ------------------------------------------------------ reconciliation pass
Stem(name) == SubSeq(name, 1, Len(name) - Len(ExtOfName(name)))
Dir(path) == SubSeq(path, 1, Len(path) - 1)

\* variant: the matching step finds no video
findCandidatesNone(l, sub) == {}

\* Subtitles.findCandidates(): the stored videos in the subtitle's directory
\* whose name stem equals the subtitle's, letter case ignored
findCandidates(l, sub) ==
    {v.rec.absPath : v \in
        {d \in Range(col[l][<<ecMedia, mkVideo>>]) :
            /\ Dir(d.rec.absPath) = Dir(sub.absPath)
            /\ ToLower(Stem(Last(d.rec.absPath)))
                 = ToLower(Stem(Last(sub.absPath)))}}

\* variant: every stored subtitle is submitted, in either mode
OrphansAll(c, force) == [i \in 1..Len(c) |-> i]

\* the positions of the subtitles the pass submits to the matching step
Orphans(c, force) ==
    SelectSeq([i \in 1..Len(c) |-> i],
              LAMBDA i : force \/ Cardinality(c[i].rec.known) <= 0)

\* recandidateSubtitles(force), the matching step failing on the k-th
\* submitted subtitle (k = 0: on none).  The subtitles submitted before the
\* failing one are given the candidates that were found; those among them
\* with no candidate are counted as remaining; the failing call's error, or
\* nil, is returned.
recandidateSubtitles(l, force, k) ==
    With(col[l][<<ecSupport, mskSubtitles>>], LAMBDA c :
    With(Orphans(c, force), LAMBDA orphan :
        LET matched == IF k = 0 THEN 1..Len(orphan) ELSE 1..(k - 1)
            done == {orphan[j] : j \in matched}
        IN  [docs |-> [i \in 1..Len(c) |->
                        IF i \in done
                        THEN [c[i] EXCEPT
                                !.rec.known = findCandidates(l, c[i].rec)]
                        ELSE c[i]],
             pass |-> [force |-> force,
                       submitted |->
                          [j \in 1..(IF k = 0 THEN Len(orphan) ELSE k) |->
                              c[orphan[j]].rec.absPath],
                       remain |-> Cardinality(
                          {i \in done : findCandidates(l, c[i].rec) = {}}),
                       ret |-> IF k = 0 THEN Nil
                               ELSE RC("findErr", c[orphan[k]].rec.absPath, 0)]]))

\* scan(): l.recandidateSubtitles(false); what it returns is dropped
ScanRecand(t) ==
    /\ Alive
    /\ pc[t] = "recand"
    /\ \E l \in {loc[t].lib} :
       \E n \in {Len(Orphans(col[l][<<ecSupport, mskSubtitles>>], FALSE))} :
       \E k \in {0} \cup (IF faults > 0 THEN 1..n ELSE {}) :
       \E r \in {recandidateSubtitles(l, FALSE, k)} :
           /\ faults' = IF k = 0 THEN faults ELSE faults - 1
           /\ col' = [col EXCEPT ![l][<<ecSupport, mskSubtitles>>] = r.docs]
           /\ loc' = [loc EXCEPT
                 ![t].recand = @ + 1, ![t].pass = r.pass,
                 ![t].before = col[l][<<ecSupport, mskSubtitles>>]]
    /\ pc' = [pc EXCEPT ![t] = "finish"]
    /\ UNCHANGED <<envVars, orchVars, clock, numRecordsLoad, numRecordsScan, first,
                   gateVars, timeVars, busyVars, histVars>>

\* ------------------------------------------------------------- BusyState
\* variant: an increment that leaves the counter as it was
AddNone(n) == n

\* atomic.AddUint64(&s.busyCount, 1)
AddOne(n) == n + 1
\* variant: a decrement that leaves the counter as it was
SubNone(n) == n

\* atomic.AddUint64(&s.busyCount, ^uint64(0)): below zero the unsigned
\* counter wraps to 2^64-1, which count() converts to the int -1
SubOne(n) == IF n = 0 THEN -1 ELSE n - 1

\* where a call goes on once inc() / dec() has returned
AfterInc(t) == IF loc[t].op = "scan" THEN "dive" ELSE "loaddive"
AfterDec(t) == "total"

\* inc() / dec(): the counter is updated
BusyAdd(t) ==
    /\ Alive
    /\ pc[t] \in {"inc_add", "dec_add"}
    /\ LET n == IF pc[t] = "inc_add" THEN AddOne(busyCount)
                ELSE SubOne(busyCount)
       IN  /\ busyCount' = n
           /\ loc' = [loc EXCEPT ![t].newCount = n]
           /\ lastNext' = IF n = 0 THEN 0 ELSE lastNext
    /\ pc' = [pc EXCEPT ![t] = IF pc[t] = "inc_add" THEN "inc_send"
                               ELSE "dec_send"]
    /\ UNCHANGED <<envVars, orchVars, faults, clock, dbVars, gateVars, timeVars,
                   busyCycle, observed, histVars>>

\* variant: inc() resets the cycle whatever the new count is
ResetsAfterIncAlways(newCount) == TRUE

\* inc(): if 1 == newCount { s.reset() }
ResetsAfterInc(newCount) == 1 = newCount

\* dec(): if 0 == newCount { s.reset() }
ResetsAfterDec(newCount) == 0 = newCount

\* s.changed <- newCount: the channel is unbuffered, and the send completes
\* when the receiver takes the value.  The only receiver is the UI layout
\* main would start outside CLI mode (main.go:403-421, commented out): where
\* it does not run, a goroutine at the send stays there.
BusySend(t) ==
    /\ Alive
    /\ layout
    /\ pc[t] \in {"inc_send", "dec_send"}
    /\ observed' = loc[t].newCount
    /\ pc' = [pc EXCEPT ![t] =
                IF pc[t] = "inc_send"
                THEN (IF ResetsAfterInc(loc[t].newCount)
                      THEN "inc_reset" ELSE AfterInc(t))
                ELSE (IF ResetsAfterDec(loc[t].newCount)
                      THEN "dec_reset" ELSE AfterDec(t))]
    /\ UNCHANGED <<envVars, orchVars, faults, clock, dbVars, gateVars, timeVars,
                   busyCount, busyCycle, lastNext, loc, histVars>>

\* s.reset(): the cycle restarts; cycleWas keeps the cycle count it ends
BusyReset(t) ==
    /\ Alive
    /\ pc[t] \in {"inc_reset", "dec_reset"}
    /\ busyCycle' = 0
    /\ loc' = [loc EXCEPT ![t].cycleWas = busyCycle]
    /\ pc' = [pc EXCEPT ![t] = IF pc[t] = "inc_reset" THEN AfterInc(t)
                               ELSE AfterDec(t)]
    /\ UNCHANGED <<envVars, orchVars, faults, clock, dbVars, gateVars, timeVars,
                   busyCount, observed, lastNext, histVars>>

\* s.cycle(): atomic.LoadUint64(&s.busyCycle)
cycle == busyCycle

\* s.next(), called by the display once per redraw: one more cycle.  The
\* display is the layout; where it does not run, as in src/, next() has no
\* caller.
BusyNext ==
    /\ Alive
    /\ layout
    /\ busyCycle < MaxCycle
    /\ busyCycle' = busyCycle + 1
    /\ lastNext' = IF busyCount >= 1 THEN busyCycle' ELSE lastNext
    /\ UNCHANGED <<envVars, orchVars, faults, clock, dbVars, gateVars, timeVars,
                   busyCount, observed, histVars, pc, loc>>

\* ------------------------------------------------------------------ scan()
\* variants of the gate test used to see that the properties depend on it
GateFreeAlways(ch) == TRUE
GateFreeBelowTwo(ch) == Len(ch) < maxLibraryScanners + 1

\* the buffered channel takes a value iff it is not filled to capacity
GateFree(ch) == Len(ch) < maxLibraryScanners

\* variant: the receive that leaves the value in the channel
ReleaseNone(ch) == ch

\* <-l.scanStart, <-l.loadStart: the oldest value leaves the channel
Release(ch) == Tail(ch)

\* variant: scan() tries the channel load() writes to
scanGateOfLoad(l) == loadStart[l]

\* the channel the select of scan() writes to: the library's own scanStart
scanGate(l) == scanStart[l]

\* the goroutines populateLibrary() starts for library l
Loader(l) == l
Scanner(l) == NumLibs + l
OrchThreads == 1..(2 * NumLibs)

\* Goroutine t is about to call op on library l: a free-running goroutine
\* that has a call left, or the goroutine of populateLibrary() that makes
\* this call.
CanCall(t, op, l) ==
    /\ Alive
    /\ \/ /\ pc[t] = "idle"
          /\ ncalls < MaxCalls
       \/ /\ pc[t] = "lcall"
          /\ op = "load"
          /\ t = Loader(l)
       \/ /\ pc[t] = "scall"
          /\ op = "scan"
          /\ t = Scanner(l)

\* the call is entered by a free-running goroutine
Entered(t) == ncalls' = IF pc[t] = "idle" THEN ncalls + 1 ELSE ncalls

\* variant: the admitted section starts its work without calling inc()
AdmittedNoInc(op) == IF op = "scan" THEN "dive" ELSE "loaddive"

\* if !isCLIMode { l.busyState.inc() }: where the admitted section goes
\* on, by the value of isCLIMode it reads
Admitted(op) ==
    IF ~isCLIMode THEN "inc_add"
    ELSE IF op = "scan" THEN "dive" ELSE "loaddive"

\* variant: the error names neither the library nor the limit
LibraryBusyBare(l) == RC("rcLibraryBusy", <<>>, 0)

\* rcLibraryBusy.specf("...", l.absPath, maxLibraryScanners)
LibraryBusy(l) == RC("rcLibraryBusy", AbsRoot(l), maxLibraryScanners)

\* variant: the rejected call reports the library's scan total
RejectedCounting(op, l) ==
    [NewCall(op, l, AllHandlers) EXCEPT
        !.err = LibraryBusy(l), !.count = totalRecords(numRecordsScan[l])]

\* the default branch of the select: return 0, rcLibraryBusy
Rejected(op, l) ==
    [NewCall(op, l, AllHandlers) EXCEPT !.err = LibraryBusy(l), !.count = 0]

\* select { case l.scanStart <- time.Now(): ... }: the slot is taken; the
\* test of isCLIMode that follows (624) is a step of its own
ScanAdmit(t, l) ==
    /\ CanCall(t, "scan", l)
    /\ GateFree(scanGate(l))
    /\ scanStart' = [scanStart EXCEPT ![l] = Append(@, Now)]
    /\ clock' = Tick(clock)
    /\ loc' = [loc EXCEPT ![t] = [NewCall("scan", l, AllHandlers) EXCEPT
                                     !.prior = cleanScans[l]]]
    /\ pc' = [pc EXCEPT ![t] = "inc_test"]
    /\ Entered(t)
    /\ UNCHANGED <<envVars, orchVars, faults, dbVars, loadStart, timeVars, busyVars,
                   cleanScans, scanLog>>

\* select { ... default: }: the slot is taken, the call returns LibraryBusy
ScanBusy(t, l) ==
    /\ CanCall(t, "scan", l)
    /\ ~GateFree(scanGate(l))
    /\ loc' = [loc EXCEPT ![t] = Rejected("scan", l)]
    /\ pc' = [pc EXCEPT ![t] = "ret"]
    /\ Entered(t)
    /\ UNCHANGED <<envVars, orchVars, faults, clock, dbVars, gateVars, timeVars, busyVars,
                   cleanScans, scanLog>>

\* l.lastScan = time.Now(), then the receive of l.scanElapsed =
\* time.Since(<-l.scanStart): the slot is free from here on, while the
\* duration is still to be taken and stored.  (The write of lastScan is made
\* with the slot held and the receive reads nothing another goroutine
\* writes meanwhile, so the two are one step.)
ScanFinish(t) ==
    /\ Alive
    /\ pc[t] = "finish"
    /\ Len(scanStart[loc[t].lib]) > 0
    /\ LET l == loc[t].lib
       IN  /\ lastScan' = [lastScan EXCEPT ![l] = Now]
           /\ loc' = [loc EXCEPT ![t].start = Head(scanStart[l])]
           /\ scanStart' = [scanStart EXCEPT ![l] = Release(@)]
           /\ clock' = Tick(clock)
    /\ pc' = [pc EXCEPT ![t] = "since"]
    /\ UNCHANGED <<envVars, orchVars, faults, dbVars, loadStart, loadElapsed,
                   scanElapsed, busyVars, histVars>>

\* time.Since(start) of l.scanElapsed = time.Since(<-l.scanStart) and of
\* l.loadElapsed = time.Since(<-l.loadStart): the clock is read
Since(t) ==
    /\ Alive
    /\ pc[t] = "since"
    /\ loc' = [loc EXCEPT ![t].elapsed = Now - loc[t].start]
    /\ clock' = Tick(clock)
    /\ pc' = [pc EXCEPT ![t] = "store"]
    /\ UNCHANGED <<envVars, orchVars, faults, dbVars, gateVars, timeVars,
                   busyVars, histVars>>

\* the duration is stored in l.scanElapsed / l.loadElapsed, with no slot
\* held: the store is not ordered with that of another call on the library;
\* the test of isCLIMode that follows (351, 642) is a step of its own
StoreElapsed(t) ==
    /\ Alive
    /\ pc[t] = "store"
    /\ LET l == loc[t].lib
       IN  IF loc[t].op = "scan"
           THEN /\ scanElapsed' = [scanElapsed EXCEPT ![l] = loc[t].elapsed]
                /\ UNCHANGED <<loadElapsed, lastScan>>
           ELSE /\ loadElapsed' = [loadElapsed EXCEPT ![l] = loc[t].elapsed]
                /\ UNCHANGED <<scanElapsed, lastScan>>
    /\ loc' = [loc EXCEPT ![t].start = 0, ![t].elapsed = 0]
    /\ pc' = [pc EXCEPT ![t] = "dec_test"]
    /\ UNCHANGED <<envVars, orchVars, faults, clock, dbVars, gateVars,
                   busyVars, histVars>>

\* where the call goes on past the store of its duration, by the value of
\* isCLIMode it reads
Completed(op) == IF ~isCLIMode THEN "dec_add" ELSE "total"

\* if !isCLIMode { l.busyState.inc() } after the send on the gate
\* (part_000:328, 624) and if !isCLIMode { l.busyState.dec() } after the
\* store of the duration (351, 642): the global isCLIMode is read, with
\* nothing ordering the read and the write of die() (part_001:238)
ReadMode(t) ==
    /\ Alive
    /\ pc[t] \in {"inc_test", "dec_test"}
    /\ pc' = [pc EXCEPT ![t] = IF pc[t] = "inc_test" THEN Admitted(loc[t].op)
                               ELSE Completed(loc[t].op)]
    /\ UNCHANGED <<envVars, orchVars, faults, clock, dbVars, gateVars,
                   timeVars, busyVars, histVars, loc>>

\* total, summary := l.db.totalRecordsString(dmScan, -1, -1); numScan = total
ScanTotal(t) ==
    /\ Alive
    /\ pc[t] = "total"
    /\ loc[t].op = "scan"
    /\ loc' = [loc EXCEPT ![t].count = totalRecords(numRecordsScan[loc[t].lib])]
    /\ pc' = [pc EXCEPT ![t] = "ret"]
    /\ cleanScans' = [cleanScans EXCEPT ![loc[t].lib] =
                         IF loc[t].failed THEN @ ELSE 1]
    /\ scanLog' = [scanLog EXCEPT ![loc[t].lib] =
                      [scanned |-> TRUE, failedAt |-> loc[t].failedAt]]
    /\ UNCHANGED <<envVars, orchVars, faults, clock, dbVars, gateVars, timeVars, busyVars,
                   ncalls>>

\* ------------------------------------------------------------------ load()
\* the handler slot loadDive() notifies for a collection's documents
LoadHandler(class) == IF class = ecMedia THEN "handleMedia" ELSE "handleSupport"

\* loadDive(ph, class, kind): every stored document is unmarshalled and
\* handed to the handler; the count of documents and a nil error are returned
\* variant: the callback of ForEachDoc does not move on to the next document
loadDiveFirstOnly(l, ph, class, kind) ==
    LET c == col[l][<<class, kind>>]
        n == IF Len(c) > 0 THEN 1 ELSE 0
    IN  [count |-> n,
         ret |-> Nil,
         handled |-> IF LoadHandler(class) \in ph
                     THEN [i \in 1..n |->
                             Handled(LoadHandler(class), c[i].rec.absPath,
                                     c[i].id)]
                     ELSE <<>>]

\* loadDive(): ForEachDoc over the collection; each document is decoded
\* and handed with its path and id to the handler of its class, and counted
loadDive(l, ph, class, kind) ==
    LET c == col[l][<<class, kind>>]
    IN  [count |-> Len(c),
         ret |-> Nil,
         handled |-> IF LoadHandler(class) \in ph
                     THEN [i \in 1..Len(c) |->
                             Handled(LoadHandler(class), c[i].rec.absPath,
                                     c[i].id)]
                     ELSE <<>>]

\* select { case l.loadStart <- time.Now(): ... }: the slot is taken
LoadAdmit(t, l) ==
    /\ CanCall(t, "load", l)
    /\ GateFree(loadStart[l])
    /\ loadStart' = [loadStart EXCEPT ![l] = Append(@, Now)]
    /\ clock' = Tick(clock)
    /\ loc' = [loc EXCEPT ![t] = NewCall("load", l, AllHandlers)]
    /\ pc' = [pc EXCEPT ![t] = "inc_test"]
    /\ Entered(t)
    /\ UNCHANGED <<envVars, orchVars, faults, dbVars, scanStart, timeVars, busyVars,
                   cleanScans, scanLog>>

\* select { ... default: }: the call returns LibraryBusy
LoadBusy(t, l) ==
    /\ CanCall(t, "load", l)
    /\ ~GateFree(loadStart[l])
    /\ loc' = [loc EXCEPT ![t] = Rejected("load", l)]
    /\ pc' = [pc EXCEPT ![t] = "ret"]
    /\ Entered(t)
    /\ UNCHANGED <<envVars, orchVars, faults, clock, dbVars, gateVars, timeVars, busyVars,
                   cleanScans, scanLog>>

\* one round of the loop over the collections: count[kind], err = loadDive();
\* a non-nil err returns from load() at once
LoadDive(t) ==
    /\ Alive
    /\ pc[t] = "loaddive"
    /\ LET l == loc[t].lib
           key == Collections[loc[t].ci]
           r == loadDive(l, loc[t].ph, key[1], key[2])
       IN  /\ numRecordsLoad' = [numRecordsLoad EXCEPT ![l][key] = r.count]
           /\ loc' = [loc EXCEPT
                 ![t].handled = @ \o r.handled,
                 ![t].visited = @ \o [i \in 1..r.count |->
                                        Visit(<<>>, loc[t].ci, "nil")],
                 ![t].err = r.ret,
                 ![t].ci = IF r.ret = Nil /\ @ < Len(Collections)
                           THEN @ + 1 ELSE @]
           /\ pc' = [pc EXCEPT ![t] =
                        IF r.ret # Nil THEN "ret"
                        ELSE IF loc[t].ci < Len(Collections) THEN "loaddive"
                        ELSE "lfinish"]
    /\ UNCHANGED <<envVars, orchVars, faults, clock, col, numRecordsScan, first,
                   gateVars, timeVars, busyVars, histVars>>

\* the receive of l.loadElapsed = time.Since(<-l.loadStart): the slot is
\* free from here on, while the duration is still to be taken and stored
LoadFinish(t) ==
    /\ Alive
    /\ pc[t] = "lfinish"
    /\ Len(loadStart[loc[t].lib]) > 0
    /\ LET l == loc[t].lib
       IN  /\ loc' = [loc EXCEPT ![t].start = Head(loadStart[l])]
           /\ loadStart' = [loadStart EXCEPT ![l] = Release(@)]
    /\ pc' = [pc EXCEPT ![t] = "since"]
    /\ UNCHANGED <<envVars, orchVars, faults, clock, dbVars, scanStart, timeVars,
                   busyVars, histVars>>

\* total, summary := l.db.totalRecordsString(dmLoad, -1, -1); numLoad = total
LoadTotal(t) ==
    /\ Alive
    /\ pc[t] = "total"
    /\ loc[t].op = "load"
    /\ loc' = [loc EXCEPT ![t].count = totalRecords(numRecordsLoad[loc[t].lib])]
    /\ pc' = [pc EXCEPT ![t] = "ret"]
    /\ UNCHANGED <<envVars, orchVars, faults, clock, dbVars, gateVars, timeVars, busyVars, histVars>>

\* ------------------------------------------------- free-running goroutines
\* the call has returned (count, err) to the goroutine, which goes on
Return(t) ==
    /\ Alive
    /\ pc[t] = "ret"
    /\ loc' = [loc EXCEPT ![t] = NoCall]
    /\ pc' = [pc EXCEPT ![t] = "idle"]
    /\ UNCHANGED <<envVars, orchVars, faults, clock, dbVars, gateVars, timeVars, busyVars, histVars>>

\* ------------------------------------------------------------ the store at start
\* var numFound uint = 0, before the first receive
NoneFound ==
    [next |-> 1, numFound |-> 0, pc |-> "collect", reported |-> -1,
     main |-> "populated", warned |-> {}, exit |-> "no"]

\* the document of a.MP3, left by an earlier run of the program
KnownAudio(l) ==
    [id |-> 1,
     rec |-> NewRecord(l, Join(AbsRoot(l), nA), <<nA>>, mkAudio,
                       ExtOfName(nA), "MPEG Layer III")]

StoredDB(l) == [EmptyDB EXCEPT ![<<ecMedia, mkAudio>>] = <<KnownAudio(l)>>]

\* ------------------------------------------------- toRecord / fromRecord
\* A value held in an interface{}: its dynamic type and the value itself.
Val(type, v) == [type |-> type, v |-> v]

\* the fields of Media, in the order toRecord() and fromRecord() take them
MediaKeys ==
    <<"absPath", "relPath", "size", "mode", "timeModified", "sysInfo", "kind",
      "ext", "extName", "name", "timeAdded", "playbackCommand", "title",
      "description", "releaseDate">>

AudioKeys == MediaKeys \o <<"album", "track">>
VideoKeys == MediaKeys \o <<"knownSubtitles", "subtitles">>

KeysOf(kind) == IF kind = mkAudio THEN AudioKeys ELSE VideoKeys

\* the declared type of each field of Media, AudioMedia and VideoMedia
FieldType(key) ==
    CASE key \in {"size"} -> "int64"
      [] key \in {"mode"} -> "os.FileMode"
      [] key \in {"timeModified", "timeAdded", "releaseDate"} -> "time.Time"
      [] key \in {"sysInfo"} -> "nil"
      [] key \in {"kind"} -> "MediaKind"
      [] key \in {"track"} -> "int"
      [] key \in {"knownSubtitles"} -> "[]Subtitles"
      [] key \in {"subtitles"} -> "Subtitles"
      [] OTHER -> "string"

\* the type fromRecord() asserts for the value of each key ("any": the
\* value is taken as it is; "none": the value is not used)
AssertedType(key) ==
    CASE key \in {"size", "mode", "kind"} -> "float64"
      [] key \in {"timeModified", "timeAdded", "releaseDate"} -> "string"
      [] key \in {"sysInfo"} -> "any"
      [] key \in {"track"} -> "int"
      [] key \in {"knownSubtitles"} -> "[]interface{}"
      [] key \in {"subtitles"} -> "none"
      [] OTHER -> "string"

\* Subtitles{}: the zero value
ZeroSubtitles == [absPath |-> ""]

\* &AudioMedia{} / &VideoMedia{} with m.Media = &Media{}: every field zero
ZeroEntity(kind) ==
    [key \in Range(KeysOf(kind)) |->
        CASE FieldType(key) = "string" -> ""
          [] FieldType(key) = "time.Time" -> ZeroTime
          [] FieldType(key) = "nil" -> "nil"
          [] FieldType(key) = "[]Subtitles" -> <<>>
          [] FieldType(key) = "Subtitles" -> ZeroSubtitles
          [] OTHER -> 0]

\* the dynamic type of the value toRecord() puts under key: the declared
\* type of the field, and for sysInfo (an interface{}) that of what
\* info.Sys() returned
DynType(key, v) ==
    IF key = "sysInfo" /\ v # "nil" THEN "*syscall.Stat_t" ELSE FieldType(key)

\* toRecord(): every field under its key, with its declared type
toRecord(kind, m) ==
    [key \in Range(KeysOf(kind)) |-> Val(DynType(key, m[key]), m[key])]

\* What the store hands back for a stored value (json.Marshal, then
\* json.Unmarshal into an interface{}): a number is a float64, a time.Time a
\* string, a struct a map, a slice a []interface{} of such values.
FromJSON(val) ==
    CASE val.type \in {"int64", "os.FileMode", "MediaKind", "int"}
            -> Val("float64", val.v)
      [] val.type = "time.Time" -> Val("string", val.v)
      [] val.type = "Subtitles" -> Val("map[string]interface{}", val.v)
      [] val.type = "*syscall.Stat_t" -> Val("map[string]interface{}", "map")
      [] val.type = "[]Subtitles"
            -> Val("[]interface{}",
                   [i \in 1..Len(val.v) |->
                       Val("map[string]interface{}", val.v[i])])
      [] OTHER -> val

\* the record as fromRecord() is given it: as toRecord() built it, or as
\* the store hands it back
Given(rec, via) ==
    IF via = "stored" THEN [key \in DOMAIN rec |-> FromJSON(rec[key])] ELSE rec

\* t, _ := time.Parse(defaultTimeLayout, v.(string)): the time written in
\* the layout, or the zero time when the string is not in the layout
ParseTime(v, layoutFits) == IF layoutFits THEN v ELSE ZeroTime

\* whether fromRecord()'s type assertions on the value of key succeed
Asserts(key, val) ==
    CASE AssertedType(key) \in {"any", "none"} -> TRUE
      [] AssertedType(key) = "[]interface{}" ->
            /\ val.type = "[]interface{}"
            /\ \A i \in 1..Len(val.v) : val.v[i].type = "Subtitles"
      [] OTHER -> val.type = AssertedType(key)

\* the field fromRecord() sets from the value of key
Assigned(key, val, old, layoutFits) ==
    CASE AssertedType(key) = "none" -> old
      [] FieldType(key) = "time.Time" -> ParseTime(val.v, layoutFits)
      [] AssertedType(key) = "[]interface{}" ->
            [i \in 1..Len(val.v) |-> val.v[i].v]
      [] OTHER -> val.v

\* fromRecord(r): the keys are taken in order; a failed type assertion
\* panics and the fields after it are not set
RECURSIVE FromKeys(_, _, _, _)
FromKeys(keys, r, m, layoutFits) ==
    IF keys = <<>> THEN [panic |-> "", m |-> m]
    ELSE With(Head(keys), LAMBDA key :
        IF key \notin DOMAIN r
        THEN FromKeys(Tail(keys), r, m, layoutFits)
        ELSE IF ~Asserts(key, r[key])
        THEN [panic |-> key, m |-> m]
        ELSE FromKeys(Tail(keys), r,
                      [m EXCEPT ![key] = Assigned(key, r[key], @, layoutFits)],
                      layoutFits))

fromRecord(kind, r, layoutFits) ==
    FromKeys(KeysOf(kind), r, ZeroEntity(kind), layoutFits)

\* os.FileInfo of a regular file: Name(), Size(), ModTime(), Mode() and
\* Sys(), which is a *syscall.Stat_t or nil
ModePerm == 420
FileInfos ==
    {[name |-> nm, size |-> sz, modTime |-> tm, mode |-> ModePerm, sys |-> sy] :
        nm \in {"n", "m"}, sz \in {0, 3}, tm \in {1, 2},
        sy \in {"nil", "Stat_t"}}

\* the readings of time.Now() at which an entity is made
Nows == {2, 3}

\* the extension and the name of the file type scanDive() passes for a kind
ExtOf(kind) == IF kind = mkAudio THEN ".mp3" ELSE ".mkv"
ExtNameOf(kind) == IF kind = mkAudio THEN "MPEG Layer III" ELSE "Matroska"

\* newMedia(lib, absPath, relPath, kind, ext, extName, info), made at time
\* now; the fields of the kind are left zero
newMedia(absPath, relPath, kind, ext, extName, info, now) ==
    [ZeroEntity(kind) EXCEPT !["absPath"] = absPath,
                             !["relPath"] = relPath,
                             !["size"] = info.size,
                             !["mode"] = info.mode,
                             !["timeModified"] = info.modTime,
                             !["sysInfo"] = info.sys,
                             !["kind"] = kind,
                             !["ext"] = ext,
                             !["extName"] = extName,
                             !["name"] = info.name,
                             !["timeAdded"] = now,
                             !["playbackCommand"] = "--",
                             !["title"] = info.name,
                             !["description"] = "--",
                             !["releaseDate"] = ZeroTime]

\* newAudioMedia(): album "", track -1
newAudioMedia(absPath, relPath, ext, extName, info, now) ==
    [newMedia(absPath, relPath, mkAudio, ext, extName, info, now)
        EXCEPT !["album"] = "", !["track"] = -1]

\* newVideoMedia(): no known subtitles, no selected subtitles
newVideoMedia(absPath, relPath, ext, extName, info, now) ==
    [newMedia(absPath, relPath, mkVideo, ext, extName, info, now)
        EXCEPT !["knownSubtitles"] = <<>>, !["subtitles"] = ZeroSubtitles]

\* a Subtitles value other than the zero value
SomeSubtitles == [absPath |-> "s"]

\* the entities toRecord() is applied to: the audio scanDive() makes for a
\* file
AudioEntities ==
    {newAudioMedia("p", "r", ExtOf(mkAudio), ExtNameOf(mkAudio), info, now) :
        info \in FileInfos, now \in Nows}

\* a video as newVideoMedia() made it, and with the subtitles that the
\* association of subtitles has since attached to it or selected
VideoEntities ==
    {[newVideoMedia("p", "r", ExtOf(mkVideo), ExtNameOf(mkVideo), info, now)
         EXCEPT !["knownSubtitles"] = kn, !["subtitles"] = sel] :
        info \in FileInfos, now \in Nows,
        kn \in {<<>>, <<SomeSubtitles>>},
        sel \in {ZeroSubtitles, SomeSubtitles}}

\* no extension has been classified
NoExt ==
    /\ fileExt = <<>>
    /\ classified = [class |-> ecUnknown, kind |-> mkUnknown, names |-> {}]

\* no entity is being converted
NoEntity ==
    /\ entity = [kind |-> mkUnknown]
    /\ restored = [panic |-> "", m |-> <<>>]

\* ------------------------------------------------------------ initLibrary()
nDot == <<".">>
nDotDot == <<".", ".">>
nW == <<"w">>
nM == <<"m">>
nN == <<"n">>

\* os.Getwd(): the directory the program was started in
Getwd == <<nW>>

\* a path given on the command line: whether it starts at the root, and
\* its names
Rooted(names) == [rooted |-> TRUE, names |-> names]
Relative(names) == [rooted |-> FALSE, names |-> names]

\* filepath.Clean() of a rooted path: "." names are dropped, a ".." name
\* drops the name before it, and at the root is dropped itself
RECURSIVE CleanFrom(_, _)
CleanFrom(done, names) ==
    IF names = <<>> THEN done
    ELSE IF Head(names) = nDot THEN CleanFrom(done, Tail(names))
    ELSE IF Head(names) = nDotDot
    THEN CleanFrom(IF done = <<>> THEN done
                   ELSE SubSeq(done, 1, Len(done) - 1), Tail(names))
    ELSE CleanFrom(Append(done, Head(names)), Tail(names))

Clean(names) == CleanFrom(<<>>, names)

\* filepath.Abs(lib): a rooted path is cleaned; any other path is joined to
\* the working directory and cleaned
Abs(lib) ==
    IF lib.rooted THEN Clean(lib.names) ELSE Clean(Getwd \o lib.names)

\* the paths a user gives: /w/m written in four ways, and /w/n
ArgChoices ==
    {Relative(<<nM>>), Relative(<<nDot, nM>>), Rooted(<<nW, nM>>),
     Relative(<<nN, nDotDot, nM>>), Relative(<<nN>>)}

AbsRoots == {Abs(a) : a \in ArgChoices}

\* what opening a root comes to: os.Open fails, Readdir fails, newDatabase
\* fails, or the library can be built
RootStates == {"ok", "noopen", "nolist", "nodb"}

\* the Library newLibrary() builds
Library(abs, lim) == [absPath |-> abs, name |-> Last(abs), maxDepth |-> lim]

\* variant: the list of libraries is not consulted
IsDuplicateNever(curr, abs) == FALSE

\* for _, p := range curr { if p.absPath == abs ... }
IsDuplicate(curr, abs) == \E i \in 1..Len(curr) : curr[i].absPath = abs

\* variant: the root directory is not read
ReadRootOk(abs, state) == Nil

\* os.Open(abs) and fds.Readdir(0)
ReadRoot(abs, state) ==
    IF state \in {"noopen", "nolist"}
    THEN RC("rcInvalidLibrary", abs, 0) ELSE Nil

\* newDatabase(opt, abs, dat): nil, or the error of the store
newDatabase(abs, state) ==
    IF state = "nodb" THEN RC("newDatabaseError", abs, 0) ELSE Nil

\* newLibrary(opt, busy, lib, lim, curr), with the failing call fault
\* ("none": neither os.Getwd nor filepath.Abs fails) and the root in state
newLibrary(lib, lim, curr, fault, state) ==
    IF fault \in {"getwd", "abs"}
    THEN [lib |-> <<>>, ret |-> RC("rcInvalidLibrary", lib.names, 0)]
    ELSE With(Abs(lib), LAMBDA abs :
        IF IsDuplicate(curr, abs)
        THEN [lib |-> <<>>, ret |-> RC("rcDuplicateLibrary", abs, 0)]
        ELSE IF ReadRoot(abs, state) # Nil
        THEN [lib |-> <<>>, ret |-> ReadRoot(abs, state)]
        ELSE IF newDatabase(abs, state) # Nil
        THEN [lib |-> <<>>, ret |-> newDatabase(abs, state)]
        ELSE [lib |-> <<Library(abs, lim)>>, ret |-> Nil])

\* under load(), scan() and populateLibrary() the libraries are open
Opened ==
    /\ libArgs = [l \in Libs |-> Relative(AbsRoot(l))]
    /\ roots = [r \in {} |-> "ok"]
    /\ library = [l \in Libs |-> Library(AbsRoot(l), depthUnlimited)]
    /\ results = <<>>

\* newBusyState(): both counters 0, nothing sent yet
BusyIdle ==
    /\ busyCount = 0
    /\ busyCycle = 0
    /\ observed = 0
    /\ lastNext = 0

\* newLibrary(): the gates are empty channels of capacity maxLibraryScanners,
\* the durations zero, lastScan the zero time; newBusyState(): both counters 0
InitLibrary ==
    /\ loadStart = [l \in Libs |-> <<>>]
    /\ scanStart = [l \in Libs |-> <<>>]
    /\ loadElapsed = [l \in Libs |-> 0]
    /\ scanElapsed = [l \in Libs |-> 0]
    /\ lastScan = [l \in Libs |-> ZeroTime]
    /\ numRecordsLoad = [l \in Libs |-> ZeroCount]
    /\ numRecordsScan = [l \in Libs |-> ZeroCount]
    /\ busyCount = 0
    /\ busyCycle = 0
    /\ observed = 0
    /\ lastNext = 0
    /\ clock = 0

\* ------------------------------------------------------------ specification
\* Goroutines call load() and scan() on the libraries in any order and at
\* any time.  Every library holds the small tree; the first library's store
\* is new, the others hold the audio file's document from an earlier run.
Init ==
    /\ InitLibrary
    /\ Opened
    /\ NoEntity
    /\ NoExt
    /\ fs = [l \in Libs |-> SmallTree]
    /\ maxDepth = [l \in Libs |-> depthUnlimited]
    /\ isCLIMode \in BOOLEAN
    /\ AnyLayout
    /\ faults = 0
    /\ first = [l \in Libs |-> l = 1]
    /\ col = [l \in Libs |-> IF first[l] THEN EmptyDB ELSE StoredDB(l)]
    /\ pc = [t \in Threads |-> "idle"]
    /\ loc = [t \in Threads |-> NoCall]
    /\ ncalls = 0
    /\ cleanScans = [l \in Libs |-> 0]
    /\ scanLog = [l \in Libs |-> NotScanned]
    /\ numMedia = [t \in Threads |-> 0]
    /\ fanin = NoneFound

\* the steps inside load() and scan()
Step(t) ==
    \/ ScanDive(t)
    \/ ScanInsert(t)
    \/ ScanRecand(t)
    \/ ScanFinish(t)
    \/ ScanTotal(t)
    \/ LoadDive(t)
    \/ LoadFinish(t)
    \/ LoadTotal(t)
    \/ Since(t)
    \/ StoreElapsed(t)
    \/ ReadMode(t)
    \/ BusyAdd(t)
    \/ BusySend(t)
    \/ BusyReset(t)

Next ==
    \E t \in Threads :
        \/ \E l \in Libs :
            \/ ScanAdmit(t, l)
            \/ ScanBusy(t, l)
            \/ LoadAdmit(t, l)
            \/ LoadBusy(t, l)
        \/ Step(t)
        \/ Return(t)

Spec == Init /\ [][Next]_vars

\* One goroutine scans the first library again and again (CLI mode); the
\* library holds any of the trees, has any depth limit, and some call of the
\* run may fail.
InitScan ==
    /\ InitLibrary
    /\ Opened
    /\ NoEntity
    /\ NoExt
    /\ \E tr \in Trees : fs = [l \in Libs |-> IF l = 1 THEN tr ELSE SmallTree]
    /\ \E d \in 0..MaxDepthLimit :
          maxDepth = [l \in Libs |-> IF l = 1 THEN d ELSE depthUnlimited]
    /\ isCLIMode \in BOOLEAN
    /\ AnyLayout
    /\ faults \in 0..MaxFaults
    /\ first = [l \in Libs |-> TRUE]
    /\ col = [l \in Libs |-> EmptyDB]
    /\ pc = [t \in Threads |-> IF t = 1 THEN "idle" ELSE "off"]
    /\ loc = [t \in Threads |-> NoCall]
    /\ ncalls = 0
    /\ cleanScans = [l \in Libs |-> 0]
    /\ scanLog = [l \in Libs |-> NotScanned]
    /\ numMedia = [t \in Threads |-> 0]
    /\ fanin = NoneFound

NextScan ==
    \/ ScanAdmit(1, 1)
    \/ BusyAdd(1)
    \/ BusySend(1)
    \/ BusyReset(1)
    \/ ScanDive(1)
    \/ ScanInsert(1)
    \/ ScanRecand(1)
    \/ ScanFinish(1)
    \/ Since(1)
    \/ StoreElapsed(1)
    \/ ReadMode(1)
    \/ ScanTotal(1)
    \/ Return(1)

ScanSpec == InitScan /\ [][NextScan]_vars

\* ------------------------------------------- recandidateSubtitles(force)
\* the stored record of the video e/b.mkv
VideoRecord(l) ==
    NewRecord(l, AbsRoot(l) \o <<nE, nB>>, <<nE, nB>>, mkVideo,
              ExtOfName(nB), "Matroska")

\* the stored record of a subtitle file at rel, with its known videos
SubtitleRecord(l, rel, known) ==
    [NewRecord(l, AbsRoot(l) \o rel, rel, mskSubtitles,
               ExtOfName(Last(rel)), "") EXCEPT !.known = known]

\* a collection holding the records of a sequence, under the ids 1, 2, ...
Stored(recs) == [i \in 1..Len(recs) |-> [id |-> i, rec |-> recs[i]]]

\* the stores the pass is applied to: the video stored or not, and each of
\* e/b.SRT, e/e/c.sub and c.sub stored or not, with or without a known video
OneOrNone(l, rel) ==
    {<<>>} \cup {<<SubtitleRecord(l, rel, kn)>> :
                    kn \in {{}, {AbsRoot(l) \o <<nE, nB>>}}}

PassStores(l) ==
    {[EmptyDB EXCEPT ![<<ecMedia, mkVideo>>] = Stored(vs),
                     ![<<ecSupport, mskSubtitles>>] = Stored(s1 \o s2 \o s3)] :
        vs \in {<<>>, <<VideoRecord(l)>>},
        s1 \in OneOrNone(l, <<nE, nS>>),
        s2 \in OneOrNone(l, <<nE, nE, nC>>),
        s3 \in OneOrNone(l, <<nC>>)}

InitPass ==
    /\ InitLibrary
    /\ Opened
    /\ NoEntity
    /\ NoExt
    /\ fs = [l \in Libs |-> SmallTree]
    /\ maxDepth = [l \in Libs |-> depthUnlimited]
    /\ isCLIMode = TRUE
    /\ NoLayout
    /\ faults \in 0..MaxFaults
    /\ first = [l \in Libs |-> FALSE]
    /\ \E db \in PassStores(1) :
          col = [l \in Libs |-> IF l = 1 THEN db ELSE EmptyDB]
    /\ pc = [t \in Threads |-> IF t = 1 THEN "idle" ELSE "off"]
    /\ loc = [t \in Threads |-> NoCall]
    /\ ncalls = 0
    /\ cleanScans = [l \in Libs |-> 0]
    /\ scanLog = [l \in Libs |-> NotScanned]
    /\ numMedia = [t \in Threads |-> 0]
    /\ fanin = NoneFound

\* one call l.recandidateSubtitles(force) by goroutine t
Recandidate(t, l, force) ==
    /\ pc[t] = "idle"
    /\ ncalls < MaxCalls
    /\ \E n \in {Len(Orphans(col[l][<<ecSupport, mskSubtitles>>], force))} :
       \E k \in {0} \cup (IF faults > 0 THEN 1..n ELSE {}) :
       \E r \in {recandidateSubtitles(l, force, k)} :
           /\ faults' = IF k = 0 THEN faults ELSE faults - 1
           /\ col' = [col EXCEPT ![l][<<ecSupport, mskSubtitles>>] = r.docs]
           /\ loc' = [loc EXCEPT ![t] =
                        [NewCall("recand", l, {}) EXCEPT
                            !.recand = 1, !.pass = r.pass,
                            !.before = col[l][<<ecSupport, mskSubtitles>>]]]
    /\ ncalls' = ncalls + 1
    /\ UNCHANGED <<envVars, orchVars, clock, numRecordsLoad, numRecordsScan,
                   first, gateVars, timeVars, busyVars, cleanScans, scanLog, pc>>

NextPass == \E force \in BOOLEAN : Recandidate(1, 1, force)

PassSpec == InitPass /\ [][NextPass]_vars

\* ------------------------------------------------------------------- loading
\* One goroutine calls load() again and again, in CLI mode, on a library
\* whose store holds up to one video and up to three subtitles.
InitLoad ==
    /\ InitLibrary
    /\ Opened
    /\ NoEntity
    /\ NoExt
    /\ fs = [l \in Libs |-> SmallTree]
    /\ maxDepth = [l \in Libs |-> depthUnlimited]
    /\ isCLIMode = TRUE
    /\ NoLayout
    /\ faults = 0
    /\ first = [l \in Libs |-> FALSE]
    /\ \E db \in PassStores(1) :
          col = [l \in Libs |-> IF l = 1 THEN db ELSE EmptyDB]
    /\ pc = [t \in Threads |-> IF t = 1 THEN "idle" ELSE "off"]
    /\ loc = [t \in Threads |-> NoCall]
    /\ ncalls = 0
    /\ cleanScans = [l \in Libs |-> 0]
    /\ scanLog = [l \in Libs |-> NotScanned]
    /\ numMedia = [t \in Threads |-> 0]
    /\ fanin = NoneFound

NextLoad ==
    \/ LoadAdmit(1, 1)
    \/ LoadDive(1)
    \/ LoadFinish(1)
    \/ Since(1)
    \/ StoreElapsed(1)
    \/ ReadMode(1)
    \/ LoadTotal(1)
    \/ Return(1)

LoadSpec == InitLoad /\ [][NextLoad]_vars

\* ------------------------------------------------- initLibrary(), the loop
InitOpen ==
    /\ loadStart = [l \in Libs |-> <<>>]
    /\ scanStart = [l \in Libs |-> <<>>]
    /\ loadElapsed = [l \in Libs |-> 0]
    /\ scanElapsed = [l \in Libs |-> 0]
    /\ lastScan = [l \in Libs |-> ZeroTime]
    /\ numRecordsLoad = [l \in Libs |-> ZeroCount]
    /\ numRecordsScan = [l \in Libs |-> ZeroCount]
    /\ BusyIdle
    /\ clock = 0
    /\ fs = [l \in Libs |-> SmallTree]
    /\ maxDepth = [l \in Libs |-> depthUnlimited]
    /\ isCLIMode = TRUE
    /\ NoLayout
    /\ faults \in 0..MaxFaults
    /\ first = [l \in Libs |-> TRUE]
    /\ col = [l \in Libs |-> EmptyDB]
    /\ pc = [t \in Threads |-> IF t = 1 THEN "init" ELSE "off"]
    /\ loc = [t \in Threads |-> NoCall]
    /\ ncalls = 0
    /\ cleanScans = [l \in Libs |-> 0]
    /\ scanLog = [l \in Libs |-> NotScanned]
    /\ numMedia = [t \in Threads |-> 0]
    /\ fanin = NoneFound
    /\ libArgs \in [1..MaxArgs -> ArgChoices]
    /\ roots \in [AbsRoots -> RootStates]
    /\ library = <<>>
    /\ results = <<>>
    /\ NoEntity
    /\ NoExt

\* One round of initLibrary's loop: newLibrary() for the next path, and the
\* library appended if no error is returned.
InitLibraryLoop(t) ==
    /\ pc[t] = "init"
    /\ Len(results) < Len(libArgs)
    /\ \E lib \in {libArgs[Len(results) + 1]} :
       \E fault \in FaultChoices({"getwd"} \cup
                        (IF lib.rooted THEN {} ELSE {"abs"})) :
       \E r \in {newLibrary(lib, depthUnlimited, library, fault,
                            roots[Abs(lib)])} :
           /\ Consume(fault)
           /\ library' = IF r.ret = Nil THEN library \o r.lib ELSE library
           /\ results' = Append(results,
                 [lib |-> lib, fault |-> fault, state |-> roots[Abs(lib)],
                  curr |-> library, ret |-> r.ret])
    /\ UNCHANGED <<fs, maxDepth, isCLIMode, layout, libArgs, roots, orchVars, clock,
                   dbVars, gateVars, timeVars, busyVars, histVars, pc, loc,
                   entity, restored,
                   fileExt, classified>>

\* return library
InitLibraryReturn(t) ==
    /\ pc[t] = "init"
    /\ Len(results) = Len(libArgs)
    /\ pc' = [pc EXCEPT ![t] = "inited"]
    /\ UNCHANGED <<envVars, orchVars, faults, clock, dbVars, gateVars,
                   timeVars, busyVars, histVars, loc>>

\* between two rounds the root directory of a library of the list is
\* removed, or replaced by a file
RootChanges(t) ==
    /\ pc[t] = "init"
    /\ \E abs \in AbsRoots, s \in {"noopen", "nolist"} :
          /\ IsDuplicate(library, abs)
          /\ roots[abs] = "ok"
          /\ roots' = [roots EXCEPT ![abs] = s]
    /\ UNCHANGED <<fs, maxDepth, isCLIMode, layout, libArgs, library, results,
                   orchVars, faults, clock, dbVars, gateVars, timeVars,
                   busyVars, histVars, pc, loc, entity, restored,
                   fileExt, classified>>

NextOpen ==
    \/ InitLibraryLoop(1)
    \/ InitLibraryReturn(1)
    \/ RootChanges(1)

OpenSpec == InitOpen /\ [][NextOpen]_vars

\* -------------------------------------------- toRecord, then fromRecord
\* the ways a record goes from toRecord() to fromRecord(): handed over as
\* it is, or stored and read back
Ways == {"direct", "stored"}

InitRecord ==
    /\ loadStart = [l \in Libs |-> <<>>]
    /\ scanStart = [l \in Libs |-> <<>>]
    /\ loadElapsed = [l \in Libs |-> 0]
    /\ scanElapsed = [l \in Libs |-> 0]
    /\ lastScan = [l \in Libs |-> ZeroTime]
    /\ numRecordsLoad = [l \in Libs |-> ZeroCount]
    /\ numRecordsScan = [l \in Libs |-> ZeroCount]
    /\ BusyIdle
    /\ clock = 0
    /\ Opened
    /\ fs = [l \in Libs |-> SmallTree]
    /\ maxDepth = [l \in Libs |-> depthUnlimited]
    /\ isCLIMode = TRUE
    /\ NoLayout
    /\ faults = 0
    /\ first = [l \in Libs |-> TRUE]
    /\ col = [l \in Libs |-> EmptyDB]
    /\ pc = [t \in Threads |-> IF t = 1 THEN "record" ELSE "off"]
    /\ loc = [t \in Threads |-> NoCall]
    /\ ncalls = 0
    /\ cleanScans = [l \in Libs |-> 0]
    /\ scanLog = [l \in Libs |-> NotScanned]
    /\ numMedia = [t \in Threads |-> 0]
    /\ fanin = NoneFound
    /\ \E kind \in {mkAudio, mkVideo}, via \in Ways, layoutFits \in BOOLEAN :
       \E m \in (IF kind = mkAudio THEN AudioEntities ELSE VideoEntities) :
          entity = [kind |-> kind, m |-> m, via |-> via,
                    layoutFits |-> layoutFits]
    /\ restored = [panic |-> "", m |-> <<>>]
    /\ NoExt

\* m.toRecord(), and fromRecord() on a zero entity with the record
RoundTrip(t) ==
    /\ pc[t] = "record"
    /\ restored' = fromRecord(entity.kind,
                              Given(toRecord(entity.kind, entity.m),
                                    entity.via),
                              entity.layoutFits)
    /\ pc' = [pc EXCEPT ![t] = "restored"]
    /\ UNCHANGED <<fs, maxDepth, isCLIMode, layout, libArgs, roots, library, results,
                   entity, fileExt, classified, orchVars, faults, clock,
                   dbVars, gateVars, timeVars, busyVars, histVars, loc>>

NextRecord == RoundTrip(1)

RecordSpec == InitRecord /\ [][NextRecord]_vars

\* ---------------------------------------------------------- classification
\* The extensions the lists of a table hold.
Exts(table) == UNION {Range(table[n]) : n \in DOMAIN table}

\* The extensions classified: every extension of the three tables as it is
\* listed, in upper case and with its first letter in upper case, and some
\* that no table lists (none, a bare dot, a prefix and an extension of a
\* listed one, one without its dot).
ExtChoices ==
    LET listed == Exts(audioExt) \cup Exts(videoExt) \cup Exts(subsExt)
    IN  listed
        \cup {ToUpper(e) : e \in listed}
        \cup {[i \in 1..Len(e) |-> IF i = 2 THEN UpperChar(e[i]) ELSE e[i]] :
                 e \in listed}
        \cup {<<>>, <<".">>, <<".", "t", "x", "t">>, <<".", "m", "p">>,
              <<".", "m", "p", "3", "x">>, <<"m", "p", "3">>,
              <<".", "T", "x", "T">>}

\* scanDive's two switches on the extension of a regular file: the media
\* kinds first, then the support kinds, then the default branch
scanDiveClass(ext) ==
    IF mediaKindOfFileExt(ext) \in {mkAudio, mkVideo}
    THEN [class |-> ecMedia, kind |-> mediaKindOfFileExt(ext),
          names |-> mediaNameOfFileExt(ext)]
    ELSE IF mediaSupportKindOfFileExt(ext) = mskSubtitles
    THEN [class |-> ecSupport, kind |-> mskSubtitles,
          names |-> mediaSupportNameOfFileExt(ext)]
    ELSE [class |-> ecUnknown, kind |-> mskUnknown,
          names |-> mediaNameOfFileExt(ext)
                      \cup mediaSupportNameOfFileExt(ext)]

InitClass ==
    /\ InitLibrary
    /\ Opened
    /\ NoEntity
    /\ fs = [l \in Libs |-> SmallTree]
    /\ maxDepth = [l \in Libs |-> depthUnlimited]
    /\ isCLIMode = TRUE
    /\ NoLayout
    /\ faults = 0
    /\ first = [l \in Libs |-> TRUE]
    /\ col = [l \in Libs |-> EmptyDB]
    /\ pc = [t \in Threads |-> IF t = 1 THEN "classify" ELSE "off"]
    /\ loc = [t \in Threads |-> NoCall]
    /\ ncalls = 0
    /\ cleanScans = [l \in Libs |-> 0]
    /\ scanLog = [l \in Libs |-> NotScanned]
    /\ numMedia = [t \in Threads |-> 0]
    /\ fanin = NoneFound
    /\ fileExt \in ExtChoices
    /\ classified = [class |-> ecUnknown, kind |-> mkUnknown, names |-> {}]

\* the extension is classified
Classify(t) ==
    /\ pc[t] = "classify"
    /\ classified' = scanDiveClass(fileExt)
    /\ pc' = [pc EXCEPT ![t] = "classified"]
    /\ UNCHANGED <<fs, maxDepth, isCLIMode, layout, libArgs, roots, library, results,
                   entity, restored, fileExt, orchVars, faults, clock,
                   dbVars, gateVars, timeVars, busyVars, histVars, loc>>

NextClass == Classify(1)

ClassSpec == InitClass /\ [][NextClass]_vars

\* --------------------------------------------------------- populateLibrary()
\* variant: the scanning goroutine does not wait for loadComplete
ScannerEntryNoWait == "scall"

\* the scanning goroutine starts at the receive from loadComplete
ScannerEntry == "srecv"

\* variant: load() is called for every library
CallsLoadAlways(l) == TRUE

\* l.db.isFirstAppearance(): the store was created by this run
isFirstAppearance(l) == first[l]

\* if !l.db.isFirstAppearance() { ... l.load(...) ... }
CallsLoad(l) == ~isFirstAppearance(l)

\* var numMedia uint = 0; if !l.db.isFirstAppearance() { l.load(...) }
LoaderStart(l) ==
    /\ Alive
    /\ pc[Loader(l)] = "lstart"
    /\ numMedia' = [numMedia EXCEPT ![Loader(l)] = 0]
    /\ pc' = [pc EXCEPT ![Loader(l)] =
                 IF CallsLoad(l) THEN "lcall" ELSE "lsend"]
    /\ UNCHANGED <<envVars, faults, clock, dbVars, gateVars, timeVars, busyVars,
                   histVars, loc, fanin>>

\* numMedia += loadCount (the error is only logged)
LoaderReturned(l) ==
    /\ Alive
    /\ pc[Loader(l)] = "ret"
    /\ numMedia' = [numMedia EXCEPT ![Loader(l)] = @ + loc[Loader(l)].count]
    /\ loc' = [loc EXCEPT ![Loader(l)] = NoCall]
    /\ pc' = [pc EXCEPT ![Loader(l)] = "lsend"]
    /\ UNCHANGED <<envVars, faults, clock, dbVars, gateVars, timeVars, busyVars,
                   histVars, fanin>>

\* l.loadComplete <- numMedia meets numMedia = <-l.loadComplete: the channel
\* has no buffer, the two goroutines pass the value in one step
LoadComplete(l) ==
    /\ Alive
    /\ pc[Loader(l)] = "lsend"
    /\ pc[Scanner(l)] = "srecv"
    /\ numMedia' = [numMedia EXCEPT ![Scanner(l)] = numMedia[Loader(l)]]
    /\ pc' = [pc EXCEPT ![Loader(l)] = "done", ![Scanner(l)] = "scall"]
    /\ UNCHANGED <<envVars, faults, clock, dbVars, gateVars, timeVars, busyVars,
                   histVars, loc, fanin>>

\* variant: the warning is logged for every library
WarnsEmptyAlways(n) == TRUE

\* if 0 == numMedia { warnLog.logf("no media in %q: library is empty!", ...) }
WarnsEmpty(n) == 0 = n

\* numMedia += scanCount (the error is only logged); an empty library is
\* warned of
ScannerReturned(l) ==
    /\ Alive
    /\ pc[Scanner(l)] = "ret"
    /\ \E n \in {numMedia[Scanner(l)] + loc[Scanner(l)].count} :
          /\ numMedia' = [numMedia EXCEPT ![Scanner(l)] = n]
          /\ fanin' = [fanin EXCEPT !.warned = IF WarnsEmpty(n)
                                               THEN @ \cup {l} ELSE @]
    /\ loc' = [loc EXCEPT ![Scanner(l)] = NoCall]
    /\ pc' = [pc EXCEPT ![Scanner(l)] = "ssend"]
    /\ UNCHANGED <<envVars, faults, clock, dbVars, gateVars, timeVars, busyVars,
                   histVars>>

\* variant: the collector keeps the count of the library last received
AddFoundLast(numFound, n) == n

\* numFound += (<-l.scanComplete).(uint)
AddFound(numFound, n) == numFound + n

\* l.scanComplete <- numMedia meets main's numFound += <-l.scanComplete, which
\* takes the libraries in order
ScanComplete(l) ==
    /\ Alive
    /\ pc[Scanner(l)] = "ssend"
    /\ fanin.pc = "collect"
    /\ fanin.next = l
    /\ fanin' = [fanin EXCEPT
                    !.next = l + 1,
                    !.numFound = AddFound(@, numMedia[Scanner(l)])]
    /\ pc' = [pc EXCEPT ![Scanner(l)] = "done"]
    /\ UNCHANGED <<envVars, faults, clock, dbVars, gateVars, timeVars, busyVars,
                   histVars, loc, numMedia>>

\* variant: the collector waits for one library more than were started
CollectedOneMore(next) == next > NumLibs + 1

\* for _, l := range lib: the loop has received from every library
Collected(next) == next > NumLibs

\* the loop over the libraries is over: infoLog.logf("initialization
\* complete (%d ~things~ found in %s)", numFound, ...)
CollectorReport ==
    /\ Alive
    /\ fanin.pc = "collect"
    /\ Collected(fanin.next)
    /\ fanin' = [fanin EXCEPT !.pc = "logged", !.reported = fanin.numFound]
    /\ UNCHANGED <<envVars, faults, clock, dbVars, gateVars, timeVars, busyVars,
                   histVars, pc, loc, numMedia>>

\* logf() has returned and the collector comes to initComplete <- true,
\* where it waits for a receiver: only from here on does a select on the
\* channel find a sender
CollectorSend ==
    /\ Alive
    /\ fanin.pc = "logged"
    /\ fanin' = [fanin EXCEPT !.pc = "send"]
    /\ UNCHANGED <<envVars, faults, clock, dbVars, gateVars, timeVars, busyVars,
                   histVars, pc, loc, numMedia>>

\* initComplete <- true meets main's <-initComplete: in CLI mode main waits
\* at the receive; outside it main's select takes the receive when the
\* collector is at the send
InitComplete ==
    /\ Alive
    /\ fanin.pc = "send"
    /\ fanin.main = "populated"
    /\ fanin' = [fanin EXCEPT !.pc = "done", !.main = "past"]
    /\ UNCHANGED <<envVars, faults, clock, dbVars, gateVars, timeVars, busyVars,
                   histVars, pc, loc, numMedia>>

\* outside CLI mode main's select finds no sender waiting on initComplete
\* and takes the default branch ("still initializing library databases
\* ..."), whether or not the collector has already logged its report
MainDefault ==
    /\ Alive
    /\ ~isCLIMode
    /\ fanin.pc # "send"
    /\ fanin.main = "populated"
    /\ fanin' = [fanin EXCEPT !.main = "pastdefault"]
    /\ UNCHANGED <<envVars, faults, clock, dbVars, gateVars, timeVars, busyVars,
                   histVars, pc, loc, numMedia>>

\* main, past its select or its receive, ends with panic(rcOK.spec(...));
\* the deferred recover calls infoLog.die(c, false), whose first write is
\* isCLIMode = true, whatever the goroutines of populateLibrary() are doing
Die ==
    /\ fanin.main \in {"past", "pastdefault"}
    /\ fanin.exit = "no"
    /\ isCLIMode' = TRUE
    /\ fanin' = [fanin EXCEPT !.exit = "dying"]
    /\ UNCHANGED <<fs, maxDepth, layout, libArgs, roots, library, results,
                   entity, restored, fileExt, classified, faults, clock, dbVars,
                   gateVars, timeVars, busyVars, histVars, pc, loc, numMedia>>

\* die(): os.Exit(c.code) ends the process and with it every goroutine,
\* wherever it stands
Exit ==
    /\ fanin.exit = "dying"
    /\ fanin' = [fanin EXCEPT !.exit = "exited"]
    /\ UNCHANGED <<envVars, faults, clock, dbVars, gateVars, timeVars, busyVars,
                   histVars, pc, loc, numMedia>>

\* main() after initLibrary(): populateLibrary() has started a loading and a
\* scanning goroutine for every library; the first library is new, the
\* second has a store from an earlier run
InitOrch ==
    /\ InitLibrary
    /\ Opened
    /\ NoEntity
    /\ NoExt
    /\ fs = [l \in Libs |-> SmallTree]
    /\ maxDepth = [l \in Libs |-> depthUnlimited]
    /\ isCLIMode \in BOOLEAN
    /\ AnyLayout
    /\ faults \in 0..MaxFaults
    /\ first = [l \in Libs |-> l = 1]
    /\ col = [l \in Libs |-> IF first[l] THEN EmptyDB ELSE StoredDB(l)]
    /\ pc = [t \in OrchThreads |->
               IF t <= NumLibs THEN "lstart" ELSE ScannerEntry]
    /\ loc = [t \in OrchThreads |-> NoCall]
    /\ ncalls = 0
    /\ cleanScans = [l \in Libs |-> 0]
    /\ scanLog = [l \in Libs |-> NotScanned]
    /\ numMedia = [t \in OrchThreads |-> 0]
    /\ fanin = NoneFound

\* In populateLibrary() a call never finds its slot taken (CallFindsSlotFree),
\* so the busy branches of load() and scan() take no step here.
NextOrch ==
    \E l \in Libs :
        \/ LoaderStart(l)
        \/ LoadAdmit(Loader(l), l)
        \/ LoaderReturned(l)
        \/ LoadComplete(l)
        \/ ScanAdmit(Scanner(l), l)
        \/ ScannerReturned(l)
        \/ ScanComplete(l)
        \/ LoadDive(Loader(l))
        \/ LoadFinish(Loader(l))
        \/ LoadTotal(Loader(l))
        \/ ScanDive(Scanner(l))
        \/ ScanInsert(Scanner(l))
        \/ ScanRecand(Scanner(l))
        \/ ScanFinish(Scanner(l))
        \/ \E t \in {Loader(l), Scanner(l)} : Since(t) \/ StoreElapsed(t)
                                                  \/ ReadMode(t)
        \/ ScanTotal(Scanner(l))
        \/ \E t \in {Loader(l), Scanner(l)} :
              BusyAdd(t) \/ BusySend(t) \/ BusyReset(t)
        \/ CollectorReport
        \/ CollectorSend
        \/ InitComplete
        \/ MainDefault
        \/ Die
        \/ Exit

OrchSpec == InitOrch /\ [][NextOrch]_vars

\* populateLibrary() in CLI mode: the busy state is not touched, there is no
\* display, and main waits at <-initComplete.  The scheduler runs a
\* goroutine that can take a step, and a send and a receive that meet.
InitOrchCLI == InitOrch /\ isCLIMode

\* populateLibrary() outside CLI mode with every call succeeding: without
\* the layout, as src/ has the program, or with it, a display that receives
\* the busy counts and counts its redraws with next()
InitCycle == InitOrch /\ ~isCLIMode /\ faults = 0

NextCycle == NextOrch \/ BusyNext

CycleSpec == InitCycle /\ [][NextCycle]_vars

NextOrchCLI ==
    \E l \in Libs :
        \/ LoaderStart(l)
        \/ LoadAdmit(Loader(l), l)
        \/ LoaderReturned(l)
        \/ LoadComplete(l)
        \/ ScanAdmit(Scanner(l), l)
        \/ ScannerReturned(l)
        \/ ScanComplete(l)
        \/ LoadDive(Loader(l))
        \/ LoadFinish(Loader(l))
        \/ LoadTotal(Loader(l))
        \/ ScanDive(Scanner(l))
        \/ ScanInsert(Scanner(l))
        \/ ScanRecand(Scanner(l))
        \/ ScanFinish(Scanner(l))
        \/ \E t \in {Loader(l), Scanner(l)} : Since(t) \/ StoreElapsed(t)
                                                  \/ ReadMode(t)
        \/ ScanTotal(Scanner(l))
        \/ CollectorReport
        \/ CollectorSend
        \/ InitComplete
        \/ Die
        \/ Exit

OrchFairSpec == InitOrchCLI /\ [][NextOrchCLI]_vars /\ WF_vars(NextOrchCLI)

\* The scheduler runs every goroutine that can take a step of its call.  The
\* send on BusyState.changed is no such step: it waits for a receiver, and no
\* goroutine of the program receives from that channel.
Progress(t) ==
    \/ ScanDive(t)
    \/ ScanInsert(t)
    \/ ScanRecand(t)
    \/ ScanFinish(t)
    \/ ScanTotal(t)
    \/ LoadDive(t)
    \/ LoadFinish(t)
    \/ LoadTotal(t)
    \/ Since(t)
    \/ StoreElapsed(t)
    \/ ReadMode(t)
    \/ BusyAdd(t)
    \/ BusyReset(t)

FairSpec == Init /\ [][Next]_vars /\ \A t \in Threads : WF_vars(Progress(t))

\* ------------------------------------------------------------- properties
\* Goroutine t is inside the admitted section of op on library l: it has
\* taken the gate slot and has not yet freed it.
HoldsSlot(t, op, l) ==
    /\ loc[t].op = op
    /\ loc[t].lib = l
    /\ pc[t] \in {"inc_test", "inc_add", "inc_send", "inc_reset", "dive", "insert",
                  "recand", "finish", "loaddive", "lfinish"}

\* the call of goroutine t has returned LibraryBusy for op on library l
WasRejected(t, op, l) ==
    /\ pc[t] = "ret"
    /\ loc[t].op = op
    /\ loc[t].lib = l
    /\ loc[t].err.code = "rcLibraryBusy"

\* C1: for every library, at any moment, at most one load() call and at most
\* one scan() call is between taking the gate slot and freeing it.
AtMostOneAdmitted ==
    \A l \in Libs : \A op \in {"load", "scan"} :
        Cardinality({t \in DOMAIN pc : HoldsSlot(t, op, l)}) <= 1

\* a scan() holds the slot of a library while a second scan() call on that
\* library has been turned away
ScanTurnedAwayWhileHeld ==
    \E l \in Libs : \E t1, t2 \in DOMAIN pc :
        /\ t1 # t2
        /\ HoldsSlot(t1, "scan", l)
        /\ WasRejected(t2, "scan", l)

\* C2: a load() (scan()) call made while another load() (scan()) of the
\* library holds the slot takes one step, in which it returns LibraryBusy
\* naming the library path and the maximum of 1.
BusyCallReturnsAtOnce ==
    [][\A t \in DOMAIN pc :
         (pc[t] = "idle" /\ pc'[t] # "idle"
            /\ \E t2 \in DOMAIN pc :
                  HoldsSlot(t2, loc'[t].op, loc'[t].lib))
         => /\ pc'[t] = "ret"
            /\ loc'[t].count = 0
            /\ loc'[t].err = [code |-> "rcLibraryBusy",
                              path |-> AbsRoot(loc'[t].lib),
                              max |-> 1]]_vars

\* a load() holds the slot of a library while a second load() call on that
\* library has been turned away with the library's path and the limit 1
LoadTurnedAwayWhileHeld ==
    \E l \in Libs : \E t1, t2 \in DOMAIN pc :
        /\ t1 # t2
        /\ HoldsSlot(t1, "load", l)
        /\ WasRejected(t2, "load", l)
        /\ loc[t2].err.path = AbsRoot(l)
        /\ loc[t2].err.max = 1

\* C3: a call rejected with LibraryBusy changes nothing: the stores, the
\* record counters, the busy counter and cycle, lastScan, the elapsed
\* durations and both gates stay as they are, the call has visited nothing,
\* inserted nothing and notified no handler, and it returns the count 0.
RejectedCallChangesNothing ==
    [][\A t \in DOMAIN pc :
         (pc[t] = "idle" /\ pc'[t] = "ret"
            /\ loc'[t].err.code = "rcLibraryBusy")
         => /\ UNCHANGED <<fs, col, numRecordsLoad, numRecordsScan, first,
                           loadStart, scanStart, loadElapsed, scanElapsed,
                           lastScan, busyCount, busyCycle, observed>>
            /\ loc'[t].visited = <<>>
            /\ loc'[t].handled = <<>>
            /\ loc'[t].inserted = 0
            /\ loc'[t].count = 0]_vars

\* a call has been turned away from a library whose scan counters are not
\* zero and whose gate another call still holds
RejectedAfterRecordsScanned ==
    \E l \in Libs : \E t1, t2 \in DOMAIN pc : \E op \in {"load", "scan"} :
        /\ t1 # t2
        /\ HoldsSlot(t1, op, l)
        /\ WasRejected(t2, op, l)
        /\ totalRecords(numRecordsScan[l]) > 0
        /\ loc[t2].count = 0

\* C7: no collection of a library ever holds two records with the same
\* absolute path, however the scan() calls on the library interleave.
NoDuplicatePath ==
    \A l \in Libs : \A k \in ColKeys :
        \A i, j \in 1..Len(col[l][k]) :
            col[l][k][i].rec.absPath = col[l][k][j].rec.absPath => i = j

\* two goroutines have scanned one library: one has found a file stored by
\* the other, which is scanning the library once more
FileFoundStoredByOtherScan ==
    \E l \in Libs : \E t1, t2 \in DOMAIN pc :
        /\ t1 # t2
        /\ first[l]
        /\ HoldsSlot(t1, "scan", l)
        /\ loc[t2].op = "scan" /\ loc[t2].lib = l /\ pc[t2] = "ret"
        /\ loc[t2].err.code # "rcLibraryBusy"
        /\ loc[t2].inserted = 0
        /\ \E k \in ColKeys : col[l][k] # <<>>

\* the goroutine is inside a load() or scan() call that was admitted
InAdmittedCall(t) ==
    pc[t] \in {"inc_test", "inc_add", "inc_send", "inc_reset", "dive", "insert", "recand",
               "finish", "loaddive", "lfinish", "since", "store", "dec_test", "dec_add",
               "dec_send", "dec_reset", "total"}

\* C4: under populateLibrary() the scanning goroutine of a library is past
\* its receive only when the loading goroutine has sent loadComplete and is
\* done, so the load and the scan of the library are never admitted
\* together, and each of the two calls finds its gate slot free.
ScanStartsAfterLoadComplete ==
    \A l \in Libs :
        /\ pc[Scanner(l)] # "srecv" => pc[Loader(l)] = "done"
        /\ ~(InAdmittedCall(Loader(l)) /\ InAdmittedCall(Scanner(l)))
        /\ pc[Loader(l)] = "lcall" => GateFree(loadStart[l])
        /\ pc[Scanner(l)] = "scall" => GateFree(scanGate(l))

\* the scans of both libraries are under way: that of the new library,
\* whose load was skipped, and that of the library whose load counted the
\* stored document
ScansFollowSkippedAndDoneLoads ==
    /\ first[1] /\ ~first[2]
    /\ pc[Scanner(1)] = "dive" /\ pc[Loader(1)] = "done"
    /\ pc[Scanner(2)] = "dive" /\ pc[Loader(2)] = "done"
    /\ numMedia[Scanner(2)] = 1
    /\ numMedia[Scanner(1)] = 0

\* C5: every admitted load() or scan() call eventually frees its gate slot
\* and returns.
AdmittedCallReturns ==
    \A t \in Threads : InAdmittedCall(t) ~> (pc[t] = "ret")

\* --------------------------------------------------- the scan of one tree
\* the regular files of library l that the tables classify
Classifiable(l) ==
    {rel \in SkelRel :
        /\ fs[l][rel] = "file"
        /\ scanDiveEntry(l, rel, Len(rel) + 1, "none").act = "file"}

\* the regular files of library l that no table classifies
Unclassified(l) ==
    {rel \in SkelRel :
        /\ fs[l][rel] = "file"
        /\ scanDiveEntry(l, rel, Len(rel) + 1, "none").act = "other"}

\* the collection the tables assign to a classifiable file
KeyOf(l, rel) ==
    With(scanDiveEntry(l, rel, Len(rel) + 1, "none"),
         LAMBDA o : <<o.class, o.kind>>)

\* the stored records of library l, in any collection, with the path of rel
RecordsAt(l, k, rel) ==
    {i \in 1..Len(col[l][k]) : col[l][k][i].rec.absPath = AbsRoot(l) \o rel}

IndexedOnce(l, rel) ==
    /\ Cardinality(RecordsAt(l, KeyOf(l, rel), rel)) = 1
    /\ \A k \in ColKeys \ {KeyOf(l, rel)} : RecordsAt(l, k, rel) = {}

\* the call of goroutine t is a scan() that was admitted and has returned
ScanReturned(t) ==
    /\ pc[t] = "ret"
    /\ loc[t].op = "scan"
    /\ loc[t].err.code # "rcLibraryBusy"

\* the call of goroutine t is an admitted scan() that is still traversing
Scanning(t) ==
    /\ loc[t].op = "scan"
    /\ pc[t] \in {"dive", "insert", "recand", "finish"}

MediaOrSupport(h) == h.h \in {"handleMedia", "handleSupport"}

\* the traversal depth of an entry: the root is at depth 1
DepthOf(rel) == Len(rel) + 1

\* C6, as the specification states it: after one scan every classifiable
\* regular file under the root has exactly one record, and a scan that
\* follows a completed scan inserts nothing and notifies no media or support
\* handler.
EveryFileIndexedOnce ==
    \A t \in DOMAIN pc :
        /\ ScanReturned(t) =>
              \A rel \in Classifiable(loc[t].lib) : IndexedOnce(loc[t].lib, rel)
        /\ (Scanning(t) /\ lastScan[loc[t].lib] # ZeroTime) =>
              /\ loc[t].inserted = 0
              /\ \A i \in 1..Len(loc[t].handled) :
                    ~MediaOrSupport(loc[t].handled[i])

\* the file at rel is reached from the root through directories only:
\* neither the root nor a directory on the way to it is a symbolic link
ThroughDirectories(l, rel) ==
    \A k \in 0..(Len(rel) - 1) : fs[l][SubSeq(rel, 1, k)] = "dir"

\* the file at rel lies within the depth limit of the library
WithinDepth(l, rel) ==
    maxDepth[l] = depthUnlimited \/ DepthOf(rel) <= maxDepth[l]

\* a call failed on one of the entries in at, or on a directory above it
FailedOnWay(at, rel) == \E k \in 0..Len(rel) : SubSeq(rel, 1, k) \in at

\* C6, amended: after a scan, every classifiable regular file that is
\* reached from the root through directories only, lies within the depth
\* limit (any depth when maxDepth is 0) and saw no call of the scan fail on
\* it or on a directory above it has exactly one record, in the collection
\* of its class and kind; a scan that follows a returned scan inserts a
\* record and notifies a media or support handler only for files on which,
\* or on a directory above which, a call of that earlier scan failed.
ReachableFileIndexedOnce ==
    \A t \in DOMAIN pc :
        /\ ScanReturned(t) =>
              \A rel \in Classifiable(loc[t].lib) :
                  (/\ ThroughDirectories(loc[t].lib, rel)
                   /\ WithinDepth(loc[t].lib, rel)
                   /\ ~FailedOnWay(loc[t].failedAt, rel))
                  => IndexedOnce(loc[t].lib, rel)
        /\ (Scanning(t) /\ scanLog[loc[t].lib].scanned) =>
              /\ \A i \in 1..Len(loc[t].handled) :
                    MediaOrSupport(loc[t].handled[i]) =>
                        FailedOnWay(scanLog[loc[t].lib].failedAt,
                                    Rel(loc[t].lib, loc[t].handled[i].path))
              /\ loc[t].inserted
                    = Cardinality({i \in 1..Len(loc[t].handled) :
                                      MediaOrSupport(loc[t].handled[i])})
              /\ pc[t] = "insert" =>
                    FailedOnWay(scanLog[loc[t].lib].failedAt, loc[t].cur.rel)

\* a scan of a tree with an audio, a video and a subtitle file is past its
\* traversal and its pass; it followed a scan in which one call failed, on
\* one of the three: it inserted that file and notified its handler, and no
\* other; every one of the three files now has exactly one record
SecondScanInsertedFailedOnly ==
    \E t \in DOMAIN pc :
        /\ Scanning(t)
        /\ pc[t] = "finish"
        /\ scanLog[loc[t].lib].scanned
        /\ loc[t].failedAt = {}
        /\ Cardinality(Classifiable(loc[t].lib)) >= 3
        /\ \A rel \in Classifiable(loc[t].lib) : IndexedOnce(loc[t].lib, rel)
        /\ \E rel \in Classifiable(loc[t].lib) :
              /\ scanLog[loc[t].lib].failedAt = {rel}
              /\ loc[t].inserted = 1
              /\ \E i \in 1..Len(loc[t].handled) :
                    /\ MediaOrSupport(loc[t].handled[i])
                    /\ loc[t].handled[i].path = AbsRoot(loc[t].lib) \o rel

\* C8, as the specification states it: with maxDepth = d > 0 no file deeper
\* than d is visited or indexed, every classifiable file at depth d is
\* indexed by a scan without failures, and a directory at depth d, whose
\* children would be at depth d+1, is reported as DirDepth and not listed.
DepthLimitKept ==
    \A t \in DOMAIN pc :
        (loc[t].op = "scan" /\ maxDepth[loc[t].lib] > 0) =>
          LET l == loc[t].lib
              d == maxDepth[l]
          IN  /\ \A i \in 1..Len(loc[t].visited) :
                    LET v == loc[t].visited[i]
                    IN  /\ fs[l][v.rel] = "file" => v.depth <= d
                        /\ (fs[l][v.rel] = "dir" /\ v.depth = d
                              /\ v.rc # "rcInvalidStat") => v.rc = "rcDirDepth"
              /\ \A rel \in Classifiable(l) : \A k \in ColKeys :
                    DepthOf(rel) > d => RecordsAt(l, k, rel) = {}
              /\ (ScanReturned(t) /\ ~loc[t].failed) =>
                    \A rel \in Classifiable(l) :
                        DepthOf(rel) = d => IndexedOnce(l, rel)

\* the entries of library l that are no directory and no regular file
NotRegular(l) == {rel \in SkelRel : fs[l][rel] \in {"symlink"} \cup SpecialTypes}

\* C9: an entry that is a symbolic link, a device, a named pipe, a socket or
\* a character device is never stored, never listed and never classified,
\* no handler is notified of it, and every scanDive call on it whose Lstat
\* succeeds returns InvalidFile.
SpecialEntriesSkipped ==
    /\ \A l \in Libs : \A rel \in NotRegular(l) : \A k \in ColKeys :
          RecordsAt(l, k, rel) = {}
    /\ \A t \in DOMAIN pc :
          loc[t].op = "scan" =>
            \A rel \in NotRegular(loc[t].lib) :
                /\ \A i \in 1..Len(loc[t].visited) :
                      loc[t].visited[i].rel = rel =>
                          \/ loc[t].visited[i].rc = "rcInvalidFile"
                          \/ /\ loc[t].visited[i].rc = "rcInvalidStat"
                             /\ loc[t].failed
                /\ \A i \in 1..Len(loc[t].handled) :
                      loc[t].handled[i].path # AbsRoot(loc[t].lib) \o rel
                /\ \A i \in 1..Len(loc[t].stack) : loc[t].stack[i].dir # rel
                /\ pc[t] = "insert" => loc[t].cur.rel # rel

\* a scan has returned from a tree in which a.MP3 is a character device,
\* b.mkv a named pipe and c.sub a symbolic link: each was visited and the
\* visit returned InvalidFile
ThreeSpecialEntriesVisited ==
    \E t \in DOMAIN pc :
        /\ ScanReturned(t)
        /\ fs[loc[t].lib][<<nA>>] = "chardev"
        /\ fs[loc[t].lib][<<nE, nB>>] = "pipe"
        /\ fs[loc[t].lib][<<nE, nE, nC>>] = "symlink"
        /\ \A rel \in {<<nA>>, <<nE, nB>>, <<nE, nE, nC>>} :
              \E i \in 1..Len(loc[t].visited) :
                  /\ loc[t].visited[i].rel = rel
                  /\ loc[t].visited[i].rc = "rcInvalidFile"

\* C10: the scanDive call on a regular file that no table classifies
\* notifies the other-handler of the file's absolute path and nothing else:
\* it starts no insert, stores nothing and changes no record counter.
UnclassifiedOnlyOther ==
    [][\A t \in DOMAIN pc :
         (/\ pc[t] = "dive"
          /\ loc[t].op = "scan"
          /\ CurEntry(t).rel \in Unclassified(loc[t].lib)
          /\ Len(loc'[t].visited) = Len(loc[t].visited) + 1
          /\ Last(loc'[t].visited).rc = "nil")
         => /\ loc'[t].handled =
                  Append(loc[t].handled,
                         [h |-> "handleOther",
                          path |-> AbsRoot(loc[t].lib) \o CurEntry(t).rel,
                          id |-> 0])
            /\ pc'[t] # "insert"
            /\ loc'[t].inserted = loc[t].inserted
            /\ UNCHANGED <<col, numRecordsScan, numRecordsLoad>>]_vars

\* a scan has returned that stored a.MP3 and notified the other-handler of
\* d.txt, and of no other path
OtherHandlerNotifiedOfText ==
    \E t \in DOMAIN pc :
        /\ ScanReturned(t)
        /\ loc[t].inserted >= 1
        /\ \E i \in 1..Len(loc[t].handled) :
              /\ loc[t].handled[i].h = "handleOther"
              /\ loc[t].handled[i].path = AbsRoot(loc[t].lib) \o <<nD>>
        /\ \A i \in 1..Len(loc[t].handled) :
              loc[t].handled[i].h = "handleOther" =>
                  loc[t].handled[i].path = AbsRoot(loc[t].lib) \o <<nD>>

\* the goroutines whose call has added one to the busy counter in inc() and
\* has not yet taken it off in dec()
Counted ==
    {t \in DOMAIN pc :
        pc[t] \in {"inc_send", "inc_reset", "dive", "insert", "recand",
                   "finish", "loaddive", "lfinish", "since", "store", "dec_test",
                   "dec_add"}}

\* the goroutines whose admitted call is in its body, between inc() and dec()
InBody ==
    {t \in DOMAIN pc :
        pc[t] \in {"dive", "insert", "recand", "finish", "loaddive",
                   "lfinish", "since", "store", "dec_test"}}

\* C11: the busy counter is the number of calls that are admitted and have
\* not completed: with one call admitted on each of N libraries it is N, and
\* it is 0 only when every one of them has completed, in whatever order.
BusyCountIsAdmittedBodies == busyCount = Cardinality(InBody \cup Counted)

\* C12: an error of the matching step in the reconciliation pass is what
\* scan() returns to its caller.
MatchingErrorReturnedByScan ==
    \A t \in DOMAIN pc :
        (ScanReturned(t) /\ loc[t].recand = 1 /\ loc[t].pass.ret # Nil)
            => loc[t].err = loc[t].pass.ret

\* the traversal of the call of goroutine t is over: no directory is left
\* to list and no entry to visit
TraversalOver(t) == loc[t].stack = <<>>

\* C13: in an admitted scan() the reconciliation pass has not run while the
\* traversal goes on; once the call is past the point of the pass it has run
\* exactly once if the root step of the traversal returned nil, whatever
\* failed below the root, and not at all if the root step returned an
\* error; the pass is in non-force mode, and it is taken with the traversal
\* over, the scan slot still held and the call still counted as busy.
ReconciliationOncePerScan ==
    \A t \in DOMAIN pc :
        /\ (loc[t].op = "scan"
               /\ pc[t] \in {"inc_test", "inc_add", "inc_send", "inc_reset", "dive",
                             "insert", "recand"})
              => loc[t].recand = 0
        /\ (loc[t].op = "scan"
               /\ (pc[t] \in {"finish", "since", "store", "dec_test", "dec_add",
                              "dec_send", "dec_reset", "total"}
                      \/ ScanReturned(t)))
              => /\ loc[t].recand = (IF loc[t].err = Nil THEN 1 ELSE 0)
                 /\ loc[t].recand = 1 => ~loc[t].pass.force
        /\ pc[t] = "recand"
              => /\ loc[t].op = "scan"
                 /\ loc[t].err = Nil
                 /\ TraversalOver(t)
                 /\ Len(scanStart[loc[t].lib]) = 1
                 /\ ~isCLIMode => busyCount = 1

\* outside CLI mode a scan has returned nil after an entry below the root
\* failed, and its reconciliation pass ran; the slot is free again and the
\* busy counter back at 0
PassRanAfterFailureBelowRoot ==
    \E t \in DOMAIN pc :
        /\ ~isCLIMode
        /\ ScanReturned(t)
        /\ loc[t].failed
        /\ loc[t].err = Nil
        /\ loc[t].recand = 1
        /\ Len(scanStart[loc[t].lib]) = 0
        /\ busyCount = 0

\* a scan has returned the error of its root step and no pass has run
NoPassAfterRootError ==
    \E t \in DOMAIN pc :
        ScanReturned(t) /\ loc[t].err # Nil /\ loc[t].recand = 0

\* the absolute paths of the documents of c that satisfy Keep, in store order
PathsOf(c, Keep(_)) ==
    LET kept == SelectSeq(c, Keep) IN [i \in 1..Len(kept) |-> kept[i].rec.absPath]

IsPrefix(s, w) == Len(s) <= Len(w) /\ s = SubSeq(w, 1, Len(s))

\* the stored subtitles of library l, as the pass found them, that have no
\* stored video of the same directory and stem
Unmatched(l, before, paths) ==
    {i \in 1..Len(before) :
        /\ before[i].rec.absPath \in Range(paths)
        /\ findCandidates(l, before[i].rec) = {}}

\* C14: a reconciliation pass in non-force mode submits to the matching step
\* the stored subtitles whose known-video list is empty, and no other; in
\* force mode it submits every stored subtitle; a pass that the matching
\* step did not fail submits all of them, in store order, and the count it
\* reports as still orphaned is the number of submitted subtitles for which
\* the matching step found nothing.
PassSubmitsOrphansOrAll ==
    \A t \in DOMAIN pc :
        loc[t].recand = 1 =>
            LET p == loc[t].pass
                expected ==
                    IF p.force
                    THEN PathsOf(loc[t].before, LAMBDA d : TRUE)
                    ELSE PathsOf(loc[t].before, LAMBDA d : d.rec.known = {})
            IN  /\ IsPrefix(p.submitted, expected)
                /\ p.ret = Nil =>
                      /\ p.submitted = expected
                      /\ p.remain = Cardinality(
                            Unmatched(loc[t].lib, loc[t].before, p.submitted))
                /\ p.ret # Nil => Len(p.submitted) >= 1

\* a pass in force mode has submitted three stored subtitles, one of them
\* with a known video, and reported two of them as still orphaned
ForcePassOverAssociatedSubtitle ==
    \E t \in DOMAIN pc :
        /\ loc[t].recand = 1
        /\ loc[t].pass.force
        /\ loc[t].pass.ret = Nil
        /\ Len(loc[t].pass.submitted) = 3
        /\ loc[t].pass.remain = 2
        /\ \E i \in 1..Len(loc[t].before) : loc[t].before[i].rec.known # {}

\* a pass in non-force mode over three stored subtitles has submitted only
\* the two with no known video
NonForcePassSkipsAssociated ==
    \E t \in DOMAIN pc :
        /\ loc[t].recand = 1
        /\ ~loc[t].pass.force
        /\ loc[t].pass.ret = Nil
        /\ Len(loc[t].before) = 3
        /\ Len(loc[t].pass.submitted) = 2

\* the stored documents of library l's collection key whose path is abs
DocsAt(l, key, abs) ==
    {i \in 1..Len(col[l][key]) : col[l][key][i].rec.absPath = abs}

\* the call of goroutine t is a scan() whose reconciliation pass has run to
\* its end
PassCompleted(t) ==
    /\ loc[t].op = "scan"
    /\ loc[t].recand = 1
    /\ loc[t].pass.ret = Nil

\* C15: once the non-force pass of a scan has run to its end, a stored
\* subtitle e/b.SRT is associated with the stored video e/b.mkv of its
\* directory and is no longer an orphan, and a stored subtitle e/e/c.sub,
\* whose directory holds no video of its stem, is still an orphan.
SubtitleAssociatedByStem ==
    \A t \in DOMAIN pc :
        PassCompleted(t) =>
            LET l == loc[t].lib
                subs == col[l][<<ecSupport, mskSubtitles>>]
                video == AbsRoot(l) \o <<nE, nB>>
            IN  /\ DocsAt(l, <<ecMedia, mkVideo>>, video) # {} =>
                      \A i \in DocsAt(l, <<ecSupport, mskSubtitles>>,
                                       AbsRoot(l) \o <<nE, nS>>) :
                          /\ subs[i].rec.known = {video}
                          /\ \A j \in 1..Len(Orphans(subs, FALSE)) :
                                Orphans(subs, FALSE)[j] # i
                /\ \A i \in DocsAt(l, <<ecSupport, mskSubtitles>>,
                                   AbsRoot(l) \o <<nE, nE, nC>>) :
                      /\ subs[i].rec.known = {}
                      /\ \E j \in 1..Len(Orphans(subs, FALSE)) :
                            Orphans(subs, FALSE)[j] = i

\* a scan that stored e/b.mkv, e/b.SRT and e/e/c.sub has returned: its pass
\* submitted both subtitles, e/b.SRT now knows the video and e/e/c.sub is
\* reported as the one still orphaned
MovieSubtitleMatchedOtherOrphaned ==
    \E t \in DOMAIN pc :
        /\ ScanReturned(t)
        /\ PassCompleted(t)
        /\ Len(loc[t].pass.submitted) = 2
        /\ loc[t].pass.remain = 1
        /\ DocsAt(loc[t].lib, <<ecMedia, mkVideo>>,
                  AbsRoot(loc[t].lib) \o <<nE, nB>>) # {}
        /\ \E i \in DocsAt(loc[t].lib, <<ecSupport, mskSubtitles>>,
                            AbsRoot(loc[t].lib) \o <<nE, nS>>) :
              col[loc[t].lib][<<ecSupport, mskSubtitles>>][i].rec.known # {}
        /\ \E i \in DocsAt(loc[t].lib, <<ecSupport, mskSubtitles>>,
                            AbsRoot(loc[t].lib) \o <<nE, nE, nC>>) :
              col[loc[t].lib][<<ecSupport, mskSubtitles>>][i].rec.known = {}

\* initLibrary's list after its k-th newLibrary call
ListAfter(k) == IF k < Len(results) THEN results[k + 1].curr ELSE library

\* the k-th newLibrary call resolved its path, to a root already in the list
CallOfListedRoot(k) ==
    /\ results[k].fault = "none"
    /\ \E i \in 1..Len(results[k].curr) :
          results[k].curr[i].absPath = Abs(results[k].lib)

\* C16: the list of libraries never holds two libraries with the same
\* absolute root, and a newLibrary call whose path resolves to the root of a
\* library of the list returns DuplicateLibrary and leaves the list as it was.
NoTwoLibrariesShareRoot ==
    /\ \A i, j \in 1..Len(library) :
          library[i].absPath = library[j].absPath => i = j
    /\ \A k \in 1..Len(results) :
          CallOfListedRoot(k) =>
              /\ results[k].ret.code = "rcDuplicateLibrary"
              /\ ListAfter(k) = results[k].curr

\* a path written differently from that of a library of the list, and
\* resolving to the same root, was turned away as a duplicate
SameRootWrittenDifferently ==
    \E j, k \in 1..Len(results) :
        /\ j < k
        /\ results[j].ret = Nil
        /\ results[j].lib # results[k].lib
        /\ Abs(results[j].lib) = Abs(results[k].lib)
        /\ results[k].ret.code = "rcDuplicateLibrary"
        /\ Len(ListAfter(k)) = Len(results[k].curr)

\* C17: a newLibrary call returns InvalidLibrary when the path cannot be
\* resolved or, for a root not in the list, when the root cannot be opened
\* or listed; it returns the store's own error when the store cannot be
\* opened; it returns DuplicateLibrary for a root of the list even when that
\* root cannot be read; every failing call leaves initLibrary's list as it
\* was, a succeeding one appends the library, and the loop takes the paths
\* in order to the last.
FailingLibraryIsSkipped ==
    /\ \A k \in 1..Len(results) :
          LET r == results[k]
              abs == Abs(r.lib)
          IN  /\ r.lib = libArgs[k]
              /\ r.fault # "none" => r.ret.code = "rcInvalidLibrary"
              /\ CallOfListedRoot(k) => r.ret.code = "rcDuplicateLibrary"
              /\ (r.fault = "none" /\ ~CallOfListedRoot(k)) =>
                    /\ r.state \in {"noopen", "nolist"}
                          => r.ret.code = "rcInvalidLibrary"
                    /\ r.state = "nodb"
                          => r.ret = RC("newDatabaseError", abs, 0)
                    /\ r.state = "ok" => r.ret = Nil
              /\ r.ret # Nil => ListAfter(k) = r.curr
              /\ r.ret = Nil =>
                    ListAfter(k) = Append(r.curr, Library(abs, depthUnlimited))
    /\ \A t \in DOMAIN pc :
          pc[t] = "inited" => Len(results) = Len(libArgs)

\* the root of a library of the list could no longer be read when it was
\* given again: the call returned DuplicateLibrary, and the next path was
\* opened and appended
DuplicateAndUnreadableThenNext ==
    \E k \in 1..Len(results) :
        /\ CallOfListedRoot(k)
        /\ results[k].state \in {"noopen", "nolist"}
        /\ results[k].ret.code = "rcDuplicateLibrary"
        /\ k < Len(results)
        /\ results[k + 1].ret = Nil
        /\ Len(library) = 2

\* C18: toRecord() followed by fromRecord() gives back an entity with the
\* absolute path, size, modification time and the fields of its kind (album
\* and track; known subtitles and selected subtitle) of the entity it
\* started from.
RoundTripKeepsFields ==
    \A t \in DOMAIN pc :
        pc[t] = "restored" =>
            /\ restored.panic = ""
            /\ \A key \in {"absPath", "size", "timeModified"} :
                  restored.m[key] = entity.m[key]
            /\ entity.kind = mkAudio =>
                  \A key \in {"album", "track"} :
                      restored.m[key] = entity.m[key]
            /\ entity.kind = mkVideo =>
                  \A key \in {"knownSubtitles", "subtitles"} :
                      restored.m[key] = entity.m[key]

\* C19: under populateLibrary() the loading goroutine of a library whose
\* store reports first appearance never calls load(): it is only ever at
\* its start, at the send of loadComplete or done; the library's load slot
\* is never taken, no load of it is counted as busy or leaves a duration or
\* a count; and the count its scanning goroutine receives is 0.
NewLibrarySkipsLoad ==
    \A l \in Libs :
        first[l] =>
            /\ pc[Loader(l)] \in {"lstart", "lsend", "done"}
            /\ loc[Loader(l)] = NoCall
            /\ loadStart[l] = <<>>
            /\ loadElapsed[l] = 0
            /\ numRecordsLoad[l] = ZeroCount
            /\ numMedia[Loader(l)] = 0
            /\ pc[Scanner(l)] # "srecv" => pc[Loader(l)] = "done"
            /\ pc[Scanner(l)] = "scall" => numMedia[Scanner(l)] = 0

\* the scan of a library with a new store is traversing: its loading
\* goroutine is done without a load, while the other library's load has
\* been admitted
NewLibraryScansWithoutLoad ==
    \E l, m \in Libs :
        /\ first[l]
        /\ ~first[m]
        /\ pc[Loader(l)] = "done"
        /\ pc[Scanner(l)] \in {"dive", "insert"}
        /\ loc[Scanner(l)].op = "scan"
        /\ loc[Loader(m)].op = "load"
        /\ loadStart[l] = <<>>

\* C20: the cycle counter is set to zero by the inc() whose add made the
\* busy counter 1 and by the dec() whose add made it 0, after the new count
\* has been sent, and by no other inc() or dec(); nothing else sets it to
\* zero.
CycleResetOnEdgesOnly ==
    [][\A t \in DOMAIN pc :
         /\ (pc[t] = "inc_add" /\ pc'[t] = "inc_send") =>
               /\ busyCount' = busyCount + 1
               /\ loc'[t].newCount = busyCount'
         /\ (pc[t] = "dec_add" /\ pc'[t] = "dec_send") =>
               /\ busyCount' = busyCount - 1
               /\ loc'[t].newCount = busyCount'
         /\ (pc[t] = "inc_send" /\ pc'[t] # "inc_send") =>
               (pc'[t] = "inc_reset") = (loc[t].newCount = 1)
         /\ (pc[t] = "dec_send" /\ pc'[t] # "dec_send") =>
               (pc'[t] = "dec_reset") = (loc[t].newCount = 0)
         /\ (pc[t] \in {"inc_reset", "dec_reset"} /\ pc'[t] # pc[t]) =>
               busyCycle' = 0
         /\ (busyCycle # 0 /\ busyCycle' = 0) =>
               \E u \in DOMAIN pc :
                   /\ pc[u] \in {"inc_reset", "dec_reset"}
                   /\ pc'[u] # pc[u]
                   /\ loc[u].newCount = (IF pc[u] = "inc_reset" THEN 1 ELSE 0)
      ]_vars

\* a dec() that brought the busy counter from 1 to 0 has reset a cycle
\* counter that stood at 1
DecToZeroResetCycle ==
    \E t \in DOMAIN pc :
        /\ pc[t] = "total"
        /\ loc[t].newCount = 0
        /\ loc[t].cycleWas = 1
        /\ busyCount = 0
        /\ busyCycle = 0

\* an inc() that brought the busy counter to 2 has returned without a reset
\* while the cycle counter stands at 1
IncToTwoKeptCycle ==
    \E t \in DOMAIN pc :
        /\ pc[t] \in {"dive", "loaddive"}
        /\ loc[t].newCount = 2
        /\ loc[t].cycleWas = -1
        /\ busyCycle = 1

\* C21: whenever the busy count is 0, cycle() returns 0.
CycleZeroWhenNotBusy == busyCount = 0 => cycle = 0

\* the call of goroutine t is an admitted scan() whose traversal has ended
AfterTraversal(t) ==
    /\ loc[t].op = "scan"
    /\ loc[t].started
    /\ (pc[t] \in {"recand", "finish", "since", "store", "dec_test", "dec_add",
                   "dec_send", "dec_reset", "total"} \/ ScanReturned(t))

\* the positions in the visits of t's scan at which rel was visited
VisitsOf(t, rel) ==
    {i \in 1..Len(loc[t].visited) : loc[t].visited[i].rel = rel}

\* rel lies strictly below dir
Below(rel, dir) == Len(rel) > Len(dir) /\ SubSeq(rel, 1, Len(dir)) = dir

\* C22: when the traversal of a scan has ended, the root has been visited
\* once; every name listed by a directory whose step did not fail has been
\* visited once, whatever happened to the names listed before it; nothing
\* below an entry whose step failed has been visited; and the step of a
\* directory that was listed returned nil, as does the root's.
FailureSkipsOnlyItsEntry ==
    \A t \in DOMAIN pc :
        AfterTraversal(t) =>
            LET l == loc[t].lib
                vs == loc[t].visited
            IN  /\ Cardinality(VisitsOf(t, <<>>)) = 1
                /\ \A i \in 1..Len(vs) :
                      IF vs[i].rc = "nil" /\ fs[l][vs[i].rel] = "dir"
                      THEN \A n \in Range(Readdirnames(l, vs[i].rel)) :
                              Cardinality(VisitsOf(t, Append(vs[i].rel, n))) = 1
                      ELSE \A j \in 1..Len(vs) : ~Below(vs[j].rel, vs[i].rel)
                /\ (vs[Min(VisitsOf(t, <<>>))].rc = "nil") = (loc[t].err = Nil)

\* a scan has returned nil although the step of the first name listed by the
\* root failed: the two names listed after it were visited, and a file below
\* one of them was stored
SiblingsVisitedAfterFailure ==
    \E t \in DOMAIN pc :
        /\ ScanReturned(t)
        /\ loc[t].err = Nil
        /\ \E i \in VisitsOf(t, <<nA>>) : loc[t].visited[i].rc # "nil"
        /\ \E j \in VisitsOf(t, <<nE>>) : loc[t].visited[j].rc = "nil"
        /\ VisitsOf(t, <<nD>>) # {}
        /\ loc[t].inserted >= 1

\* the step ends the scanDive call of goroutine t on a file that seenFile()
\* did not find
InsertStep(t) == pc[t] = "insert" /\ pc'[t] # "insert"

\* C23: the step that ends the scanDive call on a file not seen before
\* returns nil when no call failed and an error when one did; when the
\* error is rcDatabaseError (Insert failed) the collections, the scan
\* counters and the handler calls are as before the step, and the traversal
\* goes on with the names still to visit (scan() keeps the error only when
\* the file is the root).
InsertFailureAbandonsFile ==
    [][\A t \in Threads :
          InsertStep(t) =>
              LET v == Last(loc'[t].visited)
                  rest == Unwind(loc[t].stack)
              IN  /\ v.rel = loc[t].cur.rel
                  /\ (v.rc = "nil") = (faults' = faults)
                  /\ v.rc \in {"nil", "recErr", "rcDatabaseError"}
                  /\ v.rc = "rcDatabaseError" =>
                        /\ col' = col
                        /\ numRecordsScan' = numRecordsScan
                        /\ loc'[t].handled = loc[t].handled
                        /\ loc'[t].inserted = loc[t].inserted
                        /\ loc'[t].stack = rest
                        /\ rest # <<>> => /\ pc'[t] = "dive"
                                          /\ loc'[t].err = loc[t].err
                        /\ v.depth = 1 =>
                              loc'[t].err.code = "rcDatabaseError"
    ]_vars

\* a scan with all handlers set has returned nil; the insert of the first
\* name of the root failed with rcDatabaseError, that file is in no
\* collection and no handler was called for it, and b.mkv in the directory
\* listed after it was visited and stored
InsertFailedThenSiblingStored ==
    \E t \in DOMAIN pc :
        /\ ScanReturned(t)
        /\ loc[t].err = Nil
        /\ loc[t].ph = AllHandlers
        /\ \E i \in VisitsOf(t, <<nA>>) :
              /\ loc[t].visited[i].rc = "rcDatabaseError"
              /\ \A k \in ColKeys : RecordsAt(loc[t].lib, k, <<nA>>) = {}
              /\ \A h \in Range(loc[t].handled) :
                    h.path # AbsRoot(loc[t].lib) \o <<nA>>
              /\ \E j \in VisitsOf(t, <<nE, nB>>) :
                    /\ j > i
                    /\ loc[t].visited[j].rc = "nil"
                    /\ fs[loc[t].lib][<<nE, nB>>] = "file"
                    /\ IndexedOnce(loc[t].lib, <<nE, nB>>)
        /\ loc[t].inserted >= 1

\* C24 (as stated): a scanDive call on a regular file of a known kind returns
\* nil, the error of a failed Lstat or toRecord, or rcDatabaseError: a
\* failure of the seenFile() query or of the insert is a DatabaseError.
QueryFailureIsDatabaseError ==
    \A t \in DOMAIN pc :
        loc[t].op = "scan" =>
            \A i \in 1..Len(loc[t].visited) :
                LET v == loc[t].visited[i]
                IN  scanDiveEntry(loc[t].lib, v.rel, v.depth, "none").act = "file"
                        => v.rc \in {"nil", "rcInvalidStat", "recErr",
                                     "rcDatabaseError"}

\* the key of the collection, and the handler, of the file whose scanDive
\* call goroutine t is about to end
CurKey(t) == <<loc[t].cur.class, loc[t].cur.kind>>
CurHandler(t) ==
    IF loc[t].cur.class = ecMedia THEN "handleMedia" ELSE "handleSupport"

\* C25: the step that ends scanDive on a file is taken with the file's path
\* in no document of its collection; when no call fails it appends one
\* document with that path to that collection and to no other, adds one to
\* that collection's scan counter and to no other, and then calls the
\* handler of the file's class once, when it is set, with the absolute path
\* and the id of the new document.  A scanDive call on a file whose path is
\* in its collection stores nothing, changes no counter and calls no
\* handler.
NewFileStoredOnceKnownFileSkipped ==
    [][\A t \in Threads :
          /\ (InsertStep(t) /\ faults' = faults) =>
                LET l == loc[t].lib
                    key == CurKey(t)
                    abs == AbsRoot(l) \o loc[t].cur.rel
                IN  /\ ~seenFile(l, key[1], key[2], abs)
                    /\ Len(col'[l][key]) = Len(col[l][key]) + 1
                    /\ SubSeq(col'[l][key], 1, Len(col[l][key])) = col[l][key]
                    /\ Last(col'[l][key]).rec.absPath = abs
                    /\ Last(col'[l][key]).rec.kind = key[2]
                    /\ \A i \in 1..Len(col[l][key]) :
                          col[l][key][i].id # Last(col'[l][key]).id
                    /\ \A l2 \in Libs, k2 \in ColKeys :
                          <<l2, k2>> # <<l, key>> =>
                              /\ col'[l2][k2] = col[l2][k2]
                              /\ numRecordsScan'[l2][k2] = numRecordsScan[l2][k2]
                    /\ numRecordsScan'[l][key] = numRecordsScan[l][key] + 1
                    /\ loc'[t].handled =
                          IF CurHandler(t) \in loc[t].ph
                          THEN Append(loc[t].handled,
                                      [h |-> CurHandler(t), path |-> abs,
                                       id |-> Last(col'[l][key]).id])
                          ELSE loc[t].handled
          /\ (/\ pc[t] = "dive"
              /\ loc[t].op = "scan"
              /\ pc'[t] # "dive" \/ loc'[t].visited # loc[t].visited
              /\ \E k \in ColKeys :
                    RecordsAt(loc[t].lib, k, CurEntry(t).rel) # {}
                       /\ k = KeyOf(loc[t].lib, CurEntry(t).rel))
             => /\ pc'[t] # "insert"
                /\ loc'[t].handled = loc[t].handled
                /\ loc'[t].inserted = loc[t].inserted
                /\ UNCHANGED <<col, numRecordsScan>>
    ]_vars

\* a scan with all handlers set has returned after an earlier one stored
\* a.MP3: it visited a.MP3 again, stored nothing and called no handler for
\* it, the file has one document and the audio scan counter is 1
KnownFileSkippedOnRescan ==
    \E t \in DOMAIN pc :
        /\ ScanReturned(t)
        /\ loc[t].ph = AllHandlers
        /\ loc[t].inserted = 0
        /\ fs[loc[t].lib][<<nA>>] = "file"
        /\ \E i \in VisitsOf(t, <<nA>>) : loc[t].visited[i].rc = "nil"
        /\ IndexedOnce(loc[t].lib, <<nA>>)
        /\ numRecordsScan[loc[t].lib][<<ecMedia, mkAudio>>] = 1
        /\ \A h \in Range(loc[t].handled) :
              h.path # AbsRoot(loc[t].lib) \o <<nA>>

\* a scan has just stored a.MP3 and called the media handler once with its
\* path and the id of its document
NewFileStoredAndHandled ==
    \E t \in DOMAIN pc :
        /\ loc[t].op = "scan"
        /\ loc[t].inserted = 1
        /\ fs[loc[t].lib][<<nA>>] = "file"
        /\ IndexedOnce(loc[t].lib, <<nA>>)
        /\ numRecordsScan[loc[t].lib][<<ecMedia, mkAudio>>] = 1
        /\ loc[t].handled =
              <<[h |-> "handleMedia", path |-> AbsRoot(loc[t].lib) \o <<nA>>,
                 id |-> col[loc[t].lib][<<ecMedia, mkAudio>>][1].id]>>

\* the kind of the first of the three tables that lists ext as it is given
FirstListing(ext) ==
    IF ext \in Exts(audioExt) THEN <<ecMedia, mkAudio>>
    ELSE IF ext \in Exts(videoExt) THEN <<ecMedia, mkVideo>>
    ELSE IF ext \in Exts(subsExt) THEN <<ecSupport, mskSubtitles>>
    ELSE <<ecUnknown, mskUnknown>>

\* C26: a classified extension has the kind of the first of the audio, video
\* and subtitle tables that lists its lower-case form and one of the type
\* names that table lists it under, or the unknown kind and the empty name
\* when no table lists the lower-case form; it has the kind of every table
\* entry it differs from in letter case only.
ClassifiedByLowerCaseFirstTable ==
    \A t \in DOMAIN pc :
        pc[t] = "classified" =>
            LET lower == ToLower(fileExt)
                tables == <<audioExt, videoExt, subsExt>>
                hits == {i \in 1..3 : lower \in Exts(tables[i])}
            IN  /\ <<classified.class, classified.kind>> = FirstListing(lower)
                /\ hits # {} =>
                      classified.names =
                         {n \in DOMAIN tables[Min(hits)] :
                             lower \in Range(tables[Min(hits)][n])}
                /\ hits = {} => classified.names = {""}
                /\ classified.names # {}
                /\ \A e \in Exts(audioExt) \cup Exts(videoExt) \cup Exts(subsExt) :
                      ToUpper(e) = ToUpper(fileExt) =>
                          <<classified.class, classified.kind>> = FirstListing(e)

\* .MP3 has been classified as audio; it is not listed as such in any table
UpperCaseExtensionClassified ==
    /\ pc[1] = "classified"
    /\ fileExt = <<".", "M", "P", "3">>
    /\ fileExt \notin Exts(audioExt)
    /\ classified = [class |-> ecMedia, kind |-> mkAudio,
                     names |-> {"MPEG Layer III"}]

\* .Sub has been classified as a subtitle, under one of four type names
SubtitleExtensionClassified ==
    /\ pc[1] = "classified"
    /\ fileExt = <<".", "S", "u", "b">>
    /\ <<classified.class, classified.kind>> = <<ecSupport, mskSubtitles>>
    /\ Cardinality(classified.names) = 4

\* .TxT has been classified as unknown with the empty name
UnlistedExtensionUnknown ==
    /\ pc[1] = "classified"
    /\ fileExt = <<".", "T", "x", "T">>
    /\ classified = [class |-> ecUnknown, kind |-> mskUnknown, names |-> {""}]

\* the step is a loadDive call of goroutine t
LoadDiveStep(t) ==
    /\ pc[t] = "loaddive"
    /\ (pc'[t] # pc[t] \/ loc'[t].ci # loc[t].ci)

\* C27: a loadDive call on a collection leaves every collection as it was,
\* visits as many documents as the collection holds, calls the handler of
\* the collection's class once for each document, in store order, with the
\* document's stored absolute path and its id, and returns the number of
\* documents, which load() keeps as the collection's load count.
LoadDiveVisitsEveryRecord ==
    [][\A t \in Threads :
          LoadDiveStep(t) =>
              LET l == loc[t].lib
                  key == Collections[loc[t].ci]
                  c == col[l][key]
                  n == Len(loc[t].handled)
                  new == SubSeq(loc'[t].handled, n + 1, Len(loc'[t].handled))
              IN  /\ col' = col
                  /\ numRecordsScan' = numRecordsScan
                  /\ Len(loc'[t].visited) = Len(loc[t].visited) + Len(c)
                  /\ numRecordsLoad'[l][key] = Len(c)
                  /\ \A k2 \in ColKeys \ {key} :
                        numRecordsLoad'[l][k2] = numRecordsLoad[l][k2]
                  /\ SubSeq(loc'[t].handled, 1, n) = loc[t].handled
                  /\ Len(new) = Len(c)
                  /\ \A i \in 1..Len(c) :
                        /\ new[i].h = (IF key[1] = ecMedia THEN "handleMedia"
                                       ELSE "handleSupport")
                        /\ new[i].path = c[i].rec.absPath
                        /\ new[i].id = c[i].id
                  /\ \A i, j \in 1..Len(c) : c[i].id = c[j].id => i = j
    ]_vars

\* a load with all handlers set has returned the count 2 from a library
\* that holds two documents in one collection and none in the others: the
\* handler was called once for each, with its path and id
LoadVisitedTwoRecords ==
    \E t \in DOMAIN pc, key \in ColKeys :
        /\ pc[t] = "ret"
        /\ loc[t].op = "load"
        /\ loc[t].err = Nil
        /\ loc[t].count = 2
        /\ loc[t].ph = AllHandlers
        /\ Len(col[loc[t].lib][key]) = 2
        /\ Len(loc[t].handled) = 2
        /\ \A i \in 1..2 :
              /\ loc[t].handled[i].path = col[loc[t].lib][key][i].rec.absPath
              /\ loc[t].handled[i].id = col[loc[t].lib][key][i].id
        /\ loc[t].handled[1].path # loc[t].handled[2].path

\* C28 (as stated): the count an admitted scan() returns is the number of
\* files that call inserted, and the count an admitted load() returns is the
\* number of documents that call visited, however many calls were made
\* before.
CountIsOfThisCall ==
    \A t \in DOMAIN pc :
        /\ ScanReturned(t) => loc[t].count = loc[t].inserted
        /\ (pc[t] = "ret" /\ loc[t].op = "load"
               /\ loc[t].err.code # "rcLibraryBusy")
              => loc[t].count = Len(loc[t].visited)

\* C29: a call of load() or scan() is turned away with LibraryBusy exactly
\* when another goroutine holds the slot of the same kind on the same
\* library; what is in flight on another library, or of the other kind on
\* the same library, does not matter.
AdmissionBySameGateOnly ==
    [][\A t \in Threads :
          (pc[t] = "idle" /\ pc'[t] # "idle") =>
              ((loc'[t].err.code = "rcLibraryBusy")
                  <=> \E t2 \in Threads \ {t} :
                         HoldsSlot(t2, loc'[t].op, loc'[t].lib))
    ]_vars

\* a load and a scan of the same library hold their slots together
LoadAndScanOfOneLibraryTogether ==
    \E l \in Libs : \E t1, t2 \in DOMAIN pc :
        /\ HoldsSlot(t1, "load", l)
        /\ HoldsSlot(t2, "scan", l)
        /\ loc[t1].err = Nil
        /\ loc[t2].err = Nil

\* scans of two libraries hold their slots together
ScansOfTwoLibrariesTogether ==
    \E t1, t2 \in DOMAIN pc :
        /\ HoldsSlot(t1, "scan", 1)
        /\ HoldsSlot(t2, "scan", 2)

\* the place of name n in the listing of the directory dir of library l
ListedAt(l, dir, n) ==
    Min({i \in 1..Len(Readdirnames(l, dir)) : Readdirnames(l, dir)[i] = n})

\* a comes before b in the depth-first order of library l's tree: a is a
\* directory above b, or, below the last directory above both, the name on
\* the way to a is listed before the name on the way to b
DepthFirstBefore(l, a, b) ==
    \/ Below(b, a)
    \/ \E k \in 1..Min({Len(a), Len(b)}) :
          /\ SubSeq(a, 1, k - 1) = SubSeq(b, 1, k - 1)
          /\ a[k] # b[k]
          /\ ListedAt(l, SubSeq(a, 1, k - 1), a[k])
                < ListedAt(l, SubSeq(b, 1, k - 1), b[k])

\* C30: at every moment of a scan the entries visited so far, the handler
\* calls made so far and the documents stored so far were visited, made and
\* stored in the depth-first order the listings give: an entry comes after
\* the directories above it and after everything at or below the names
\* listed before it; and at most one call per library is between the query
\* and the insert of a file.
VisitedDepthFirstInListingOrder ==
    /\ \A t \in DOMAIN pc :
          loc[t].op = "scan" =>
              LET l == loc[t].lib
                  vs == loc[t].visited
                  hs == loc[t].handled
              IN  /\ \A i, j \in 1..Len(vs) :
                        i < j => DepthFirstBefore(l, vs[i].rel, vs[j].rel)
                  /\ \A i, j \in 1..Len(hs) :
                        i < j => DepthFirstBefore(l, Tail(hs[i].path),
                                                  Tail(hs[j].path))
                  /\ pc[t] = "insert" =>
                        \A i \in 1..Len(vs) :
                            DepthFirstBefore(l, vs[i].rel, loc[t].cur.rel)
    /\ \A l \in Libs :
          Cardinality({t \in DOMAIN pc :
                          pc[t] = "insert" /\ loc[t].lib = l}) <= 1

\* a scan has returned that stored c.sub, two directories down, and then
\* called the other-handler for d.txt, which the root lists after the
\* directory: everything below the directory came before its next sibling
SubtreeBeforeNextSibling ==
    \E t \in DOMAIN pc :
        /\ ScanReturned(t)
        /\ \E i, j \in 1..Len(loc[t].handled) :
              /\ i < j
              /\ loc[t].handled[i].h = "handleSupport"
              /\ Tail(loc[t].handled[i].path) = <<nE, nE, nC>>
              /\ loc[t].handled[j].h = "handleOther"
              /\ Tail(loc[t].handled[j].path) = <<nD>>
        /\ \E i \in VisitsOf(t, <<nA>>) : \E j \in VisitsOf(t, <<nE, nB>>) :
              i < j

\* what load() and scan() of library l have counted, each called at most
\* once under populateLibrary()
CountedBy(l) ==
    totalRecords(numRecordsLoad[l]) + totalRecords(numRecordsScan[l])

\* C31: under populateLibrary() the scanning goroutine of a library is at or
\* past its send on scanComplete only when the loading goroutine is done and
\* neither is inside load() or scan(), and it carries the library's load
\* count plus scan count; the collector has received from exactly the
\* libraries whose scanning goroutine is done, in order and once each; it is
\* at or past its send on initComplete only when it has received from every
\* library, and the total it reported is the sum of the libraries' load and
\* scan counts; main is past the receive only when the collector is done.
FanInOnceAfterBothSteps ==
    /\ \A l \in Libs :
          /\ pc[Scanner(l)] \in {"ssend", "done"} =>
                /\ pc[Loader(l)] = "done"
                /\ loc[Loader(l)] = NoCall
                /\ loc[Scanner(l)] = NoCall
                /\ Len(loadStart[l]) = 0
                /\ Len(scanStart[l]) = 0
                /\ numMedia[Scanner(l)] = CountedBy(l)
          /\ (pc[Scanner(l)] = "done") = (fanin.next > l)
    /\ fanin.next \in 1..(NumLibs + 1)
    /\ fanin.numFound = SumSeq([l \in 1..(fanin.next - 1) |-> CountedBy(l)])
    /\ fanin.pc \in {"logged", "send", "done"} =>
          /\ fanin.next = NumLibs + 1
          /\ \A l \in Libs : pc[Scanner(l)] = "done"
          /\ fanin.reported = SumSeq([l \in 1..NumLibs |-> CountedBy(l)])
    /\ fanin.pc = "collect" => fanin.reported = -1
    /\ (fanin.main = "past") = (fanin.pc = "done")

\* a step of the collector or of a scanning goroutine on the completion
\* channels moves one place forward: one receive per library, one report,
\* one send
FanInStepsForward ==
    [][/\ fanin'.next \in {fanin.next, fanin.next + 1}
       /\ fanin.pc = "logged" => fanin'.pc \in {"logged", "send"}
       /\ fanin.pc = "send" => fanin'.pc \in {"send", "done"}
       /\ fanin.pc = "done" => fanin'.pc = "done"
       /\ \A l \in Libs : pc[Scanner(l)] = "done" => pc'[Scanner(l)] = "done"
    ]_vars

\* in CLI mode main is past its receive from initComplete: the collector
\* reported 2, the new library's scan having stored one file and the other
\* library's load having visited one document
InitCompleteAfterBothLibraries ==
    /\ isCLIMode
    /\ fanin.main = "past"
    /\ fanin.reported = 2
    /\ CountedBy(1) = 1
    /\ CountedBy(2) = 1
    /\ totalRecords(numRecordsLoad[2]) = 1
    /\ \A l \in Libs : pc[Scanner(l)] = "done"

\* every goroutine populateLibrary() and main started has ended, and main
\* is past its wait
AllEnded ==
    /\ \A l \in Libs : pc[Loader(l)] = "done" /\ pc[Scanner(l)] = "done"
    /\ fanin.pc = "done"
    /\ fanin.main = "past"

\* C32: in CLI mode, whatever the order in which the loads and scans
\* finish, every loading and scanning goroutine ends, the collector ends
\* and main gets past its receive from initComplete.
OrchestrationEnds == <>[]AllEnded

\* all have ended after a run in which a call failed
AllEndedAfterFailure ==
    /\ AllEnded
    /\ isCLIMode
    /\ \E l \in Libs : cleanScans[l] = 0

\* the second library's scanning goroutine waits to send its count while
\* the first library's loading goroutine has not yet started
SecondLibraryFinishedFirst ==
    /\ isCLIMode
    /\ pc[Scanner(2)] = "ssend"
    /\ pc[Loader(1)] = "lstart"

\* C33: under populateLibrary() a library whose scanning goroutine is at or
\* past its send on scanComplete has been warned of as empty exactly when
\* its load count plus scan count is zero; no library is warned of before
\* its scan has returned.
EmptyLibraryWarnedBeforeSend ==
    \A l \in Libs :
        /\ pc[Scanner(l)] \in {"ssend", "done"} =>
              ((l \in fanin.warned) = (numMedia[Scanner(l)] = 0))
        /\ pc[Scanner(l)] \in {"ssend", "done"} =>
              numMedia[Scanner(l)] = CountedBy(l)
        /\ pc[Scanner(l)] \notin {"ssend", "done"} => l \notin fanin.warned

\* the new library's scan failed at the root and found nothing: the library
\* was warned of as empty and waits to send 0; the other library, with one
\* document loaded, has sent 1 and was not warned of
EmptyWarnedOtherNot ==
    /\ pc[Scanner(1)] = "ssend"
    /\ numMedia[Scanner(1)] = 0
    /\ 1 \in fanin.warned
    /\ pc[Scanner(2)] = "done" \/ pc[Scanner(2)] = "ssend"
    /\ numMedia[Scanner(2)] = 1
    /\ 2 \notin fanin.warned

\* C34: the busy counter never wraps below zero: a call about to subtract
\* in dec() has added in inc() and is still counted, so the counter is at
\* least 1 there, and neither the counter nor any count returned by inc()
\* or dec() is the wrapped value.
BusyCounterNeverWraps ==
    /\ busyCount \in 0 .. NumThreads
    /\ observed \in 0 .. NumThreads
    /\ \A t \in DOMAIN pc :
          /\ loc[t].newCount \in 0 .. NumThreads
          /\ pc[t] = "dec_add"
                => /\ ~isCLIMode \/ fanin.exit # "no"
                   /\ t \in Counted
                   /\ busyCount >= 1

\* a call has subtracted in dec() and brought the counter from 1 to 0 after
\* an earlier call had already come and gone
DecBroughtCounterToZero ==
    \E t \in Threads :
        /\ ~isCLIMode
        /\ pc[t] = "dec_send"
        /\ loc[t].newCount = 0
        /\ busyCount = 0
        /\ ncalls >= 2

\* The program as src/ has it, without the layout: two goroutines call scan()
\* on two libraries, in either mode, and one call into the file system or the
\* store may fail.  Outside CLI mode main has taken the default branch of its
\* select and is on its way to die().
InitFault ==
    /\ InitLibrary
    /\ Opened
    /\ NoEntity
    /\ NoExt
    /\ fs = [l \in Libs |-> SmallTree]
    /\ maxDepth = [l \in Libs |-> depthUnlimited]
    /\ isCLIMode \in BOOLEAN
    /\ NoLayout
    /\ faults = MaxFaults
    /\ first = [l \in Libs |-> l = 1]
    /\ col = [l \in Libs |-> IF first[l] THEN EmptyDB ELSE StoredDB(l)]
    /\ pc = [t \in Threads |-> "idle"]
    /\ loc = [t \in Threads |-> NoCall]
    /\ ncalls = 0
    /\ cleanScans = [l \in Libs |-> 0]
    /\ scanLog = [l \in Libs |-> NotScanned]
    /\ numMedia = [t \in Threads |-> 0]
    /\ fanin = IF isCLIMode THEN NoneFound
               ELSE [NoneFound EXCEPT !.main = "pastdefault"]

\* the calls are scans: of the two operations only scan() has steps that
\* can fail.  Nothing receives from BusyState.changed, so no send on it
\* completes and no reset follows one.
NextFault ==
    \/ \E t \in Threads :
        \/ \E l \in Libs :
            \/ ScanAdmit(t, l)
            \/ ScanBusy(t, l)
        \/ ScanDive(t)
        \/ ScanInsert(t)
        \/ ScanRecand(t)
        \/ ScanFinish(t)
        \/ Since(t)
        \/ StoreElapsed(t)
        \/ ReadMode(t)
        \/ ScanTotal(t)
        \/ BusyAdd(t)
        \/ Return(t)
    \/ Die
    \/ Exit

FaultSpec == InitFault /\ [][NextFault]_vars

\* no call of load() or scan() is between its entry and its return
NoCallExecuting ==
    \A t \in DOMAIN pc :
        pc[t] \in {"idle", "ret", "lstart", "lcall", "lsend", "srecv", "scall",
                   "ssend", "done"}

AtAdd(t) == pc[t] \in {"inc_add", "dec_add"}
AtSend(t) == pc[t] \in {"inc_send", "dec_send"}

\* C36: each inc() and each dec() updates the counter first, then delivers
\* one notification carrying the post-update count, and goes on only once
\* that notification has been received; nothing else is ever received on
\* the change channel; outside CLI mode an admitted load or scan starts its
\* work only out of an inc() whose notification has been received.
NotifiedOnceAfterUpdate ==
    [][\A t \in Threads :
         \* the send is reached from the add only, with the counter updated
         /\ (~AtSend(t) /\ AtSend(t)') =>
               /\ AtAdd(t)
               /\ busyCount' # busyCount
               /\ loc'[t].newCount = busyCount'
               /\ observed' = observed
         \* leaving the send is the delivery of the post-update count
         /\ (AtSend(t) /\ ~AtSend(t)') =>
               /\ observed' = loc[t].newCount
               /\ busyCount' = busyCount
               /\ pc'[t] \in {"inc_reset", "dec_reset", AfterInc(t), AfterDec(t)}
         \* inc() and dec() are left only past the send
         /\ (AtAdd(t) /\ ~AtAdd(t)') => AtSend(t)'
         /\ (pc[t] # pc'[t] /\ pc'[t] \in {"inc_reset", "dec_reset"}) => AtSend(t)
         \* a value is received only from a goroutine that is at its send
         /\ observed' # observed => \E u \in Threads : AtSend(u) /\ ~AtSend(u)'
         \* outside CLI mode the work starts out of inc(), past the send
         /\ (~isCLIMode /\ t \notin InBody /\ (t \in InBody)') =>
               /\ pc[t] \in {"inc_send", "inc_reset"}
               /\ pc[t] = "inc_send" => observed' = loc[t].newCount
      ]_vars

\* outside CLI mode a second call admitted while another is at work has had
\* its count of 2 received and is itself at work
SecondAdmissionNotified ==
    \E t, u \in Threads :
        /\ t # u
        /\ ~isCLIMode
        /\ pc[t] \in {"dive", "loaddive"}
        /\ loc[t].newCount = 2
        /\ observed = 2
        /\ u \in InBody

\* no goroutine is inside inc() or dec()
AllBusyCallsReturned ==
    \A t \in Threads :
        pc[t] \notin {"inc_add", "inc_send", "inc_reset",
                      "dec_add", "dec_send", "dec_reset"}

\* C37: once every inc() and dec() has returned, the last value received on
\* the change channel equals the current busy count.
LastObservedIsCount == AllBusyCallsReturned => observed = busyCount

\* C38: while the busy count stays at 1 or more without passing through 0,
\* the values returned by successive next() calls strictly increase: a
\* next() called while the count is 1 or more returns more than the last
\* next() of the same busy period did.
NextValuesIncreaseWhileBusy ==
    [][(busyCount >= 1 /\ busyCycle' = busyCycle + 1) => busyCycle' > lastNext]_vars

\* ------------------------------------------- a root that is a symbolic link
\* what os.Open(abs) and fds.Readdir(0) come to in newLibrary() for a root
\* of the given type: os.Open follows a symbolic link, so a link to a
\* directory opens and lists as the directory does
OpenState(typ) == IF typ \in {"dir", "symlink"} THEN "ok" ELSE "nolist"

\* the small tree seen through a root of type r: with r a symbolic link to
\* the directory, the entries are found below the link's path
LinkedTree(r) == [SmallTree EXCEPT ![<<>>] = r]

\* One goroutine scans the first library again and again; its root is the
\* directory itself or a symbolic link to it.
InitLink ==
    /\ InitLibrary
    /\ Opened
    /\ NoEntity
    /\ NoExt
    /\ \E r \in {"dir", "symlink"} :
          fs = [l \in Libs |-> IF l = 1 THEN LinkedTree(r) ELSE SmallTree]
    /\ maxDepth = [l \in Libs |-> depthUnlimited]
    /\ isCLIMode \in BOOLEAN
    /\ AnyLayout
    /\ faults \in 0..MaxFaults
    /\ first = [l \in Libs |-> TRUE]
    /\ col = [l \in Libs |-> EmptyDB]
    /\ pc = [t \in Threads |-> IF t = 1 THEN "idle" ELSE "off"]
    /\ loc = [t \in Threads |-> NoCall]
    /\ ncalls = 0
    /\ cleanScans = [l \in Libs |-> 0]
    /\ scanLog = [l \in Libs |-> NotScanned]
    /\ numMedia = [t \in Threads |-> 0]
    /\ fanin = NoneFound

LinkSpec == InitLink /\ [][NextScan]_vars

\* the error the root step of a scan returns for a root that is a link
LinkRootError(t) ==
    IF loc[t].failed THEN "rcInvalidStat" ELSE "rcInvalidFile"

\* C39: a library whose root is a symbolic link to a directory is accepted
\* by newLibrary(); every admitted scan() of it visits the root only,
\* notifies no handler, inserts nothing and runs no reconciliation pass; it
\* returns the root step's InvalidFile (InvalidStat when the Lstat itself
\* failed) with the count 0, the scan gate free and the busy counter at 0.
LinkRootScanReturnsInvalidFile ==
    \A l \in Libs :
        fs[l][<<>>] = "symlink" =>
            /\ newLibrary(libArgs[l], maxDepth[l], <<>>, "none",
                          OpenState(fs[l][<<>>])).ret = Nil
            /\ col[l] = EmptyDB
            /\ numRecordsScan[l] = ZeroCount
            /\ \A t \in Threads :
                  (loc[t].op = "scan" /\ loc[t].lib = l
                      /\ loc[t].err.code # "rcLibraryBusy") =>
                     /\ Len(loc[t].visited) <= 1
                     /\ \A i \in 1..Len(loc[t].visited) :
                           loc[t].visited[i].rel = <<>>
                     /\ loc[t].handled = <<>>
                     /\ loc[t].inserted = 0
                     /\ loc[t].recand = 0
                     /\ pc[t] \notin {"insert", "recand"}
                     /\ pc[t] \in {"finish", "since", "store", "dec_test", "dec_add",
                                   "dec_send", "dec_reset", "total", "ret"} =>
                           /\ Len(loc[t].visited) = 1
                           /\ loc[t].visited[1].rc = LinkRootError(t)
                           /\ loc[t].err.code = LinkRootError(t)
                     /\ pc[t] = "ret" =>
                           /\ loc[t].count = 0
                           /\ scanStart[l] = <<>>
                           /\ busyCount = 0

\* outside CLI mode the second scan of a library whose root is a link to a
\* directory holding two files has returned InvalidFile: the first scan had
\* freed the gate, nothing was visited below the root and the pass did not
\* run
LinkRootScannedTwice ==
    \E t \in Threads :
        /\ ~isCLIMode
        /\ pc[t] = "ret"
        /\ ncalls = 2
        /\ fs[loc[t].lib][<<>>] = "symlink"
        /\ fs[loc[t].lib][<<nA>>] = "file"
        /\ loc[t].err.code = "rcInvalidFile"
        /\ Len(loc[t].visited) = 1
        /\ loc[t].recand = 0
        /\ scanStart[loc[t].lib] = <<>>
        /\ busyCount = 0

\* the tables that list ext, by the kind they stand for
KindsListing(ext) ==
    {k \in {<<ecMedia, mkAudio>>, <<ecMedia, mkVideo>>,
            <<ecSupport, mskSubtitles>>} :
        ext \in Exts(CASE k = <<ecMedia, mkAudio>> -> audioExt
                       [] k = <<ecMedia, mkVideo>> -> videoExt
                       [] OTHER -> subsExt)}

\* the type names under which the table of kind k lists ext
NamesListing(k, ext) ==
    LET table == CASE k = <<ecMedia, mkAudio>> -> audioExt
                   [] k = <<ecMedia, mkVideo>> -> videoExt
                   [] OTHER -> subsExt
    IN  {n \in DOMAIN table : ext \in Range(table[n])}

\* C40: no extension is listed in the tables of two different kinds, so
\* every lookup of an extension returns the one kind of the one table that
\* lists its lower-case form, whichever type name the lookup comes upon;
\* the type names a lookup may return are several only for an extension the
\* one table lists under several type names.
KindDeterminedNameMayDiffer ==
    \A t \in DOMAIN pc :
        pc[t] = "classified" =>
            LET lower == ToLower(fileExt)
                kinds == KindsListing(lower)
            IN  /\ Cardinality(kinds) <= 1
                /\ \A k \in kinds :
                      /\ <<classified.class, classified.kind>> = k
                      /\ classified.names = NamesListing(k, lower)
                /\ kinds = {} =>
                      /\ <<classified.class, classified.kind>> =
                            <<ecUnknown, mskUnknown>>
                      /\ classified.names = {""}
                /\ Cardinality(classified.names) > 1 =>
                      \E k \in kinds : Cardinality(NamesListing(k, lower)) > 1

\* .sub has been classified: the subtitle table alone lists it, under four
\* type names, any of which a lookup may return
SubListedUnderFourNames ==
    /\ pc[1] = "classified"
    /\ fileExt = <<".", "s", "u", "b">>
    /\ KindsListing(fileExt) = {<<ecSupport, mskSubtitles>>}
    /\ classified.kind = mskSubtitles
    /\ classified.names = {"MicroDVD", "MPSub", "SubViewer", "VobSub"}

\* .idx has been classified under the one type name that lists it
IdxListedUnderOneName ==
    /\ pc[1] = "classified"
    /\ fileExt = <<".", "i", "d", "x">>
    /\ classified.kind = mskSubtitles
    /\ classified.names = {"VobSub"}

=============================================================================
